---- MODULE Spec2Model ----
(***************************************************************************)
(* Profile Supervision Engine of the launcher (SimpleLauncherApp in        *)
(* gui_launcher_simple.py): the process registry, the per-profile start    *)
(* and stop operations, the startMany workers, the crash monitor, the      *)
(* connectivity monitor and the shutdown handler, as concurrent threads    *)
(* over the shared dictionaries of the application object.                 *)
(*                                                                         *)
(* Threads interleave between accesses to shared state (the application    *)
(* holds no lock), so every handler is cut at the shared reads and writes  *)
(* where another thread can observe or change what it depends on.          *)
(***************************************************************************)
EXTENDS Integers, Sequences, FiniteSets, TLC

----------------------------------------------------------------------------
(* Bounds of the model *)

\* process handles that may exist at once: alive, or dead and still referenced
\* by the registry or by a thread's local (Popen fails beyond it)
MaxProcs == 2
\* runner threads that may exist at once for one profile name
MaxRunners == 2
\* last value of the wall clock, in seconds
MaxTime == 6
\* commands the user gives in one run: start, stop, start all, close
MaxUserOps == 2
\* last value of the wall clock where the startMany waits run to their end
MaxLongTime == 15
MaxDocLen == 2
\* auto-start worker threads of AppGUI alive at a time, and save_config calls
MaxGuiWorkers == 2
MaxSaves == 2
\* pieces a connectivity target is made of
MaxTargetLen == 3

(* Program constants *)

\* time.time() when the engine is constructed (any value >= Cooldown)
Epoch == 3
\* crash monitor: "if now - last < 3: continue"
Cooldown == 3
\* crash monitor: "for _ in range(6): time.sleep(0.5)", in seconds
MonitorSleepSeconds == 3
\* launcher.py: "PING_TOTAL_TIMEOUT = 0   # 0 means wait forever"
PING_TOTAL_TIMEOUT == 0
\* launcher.py: "PING_RETRY_INTERVAL = 2  # seconds between checks"
PING_RETRY_INTERVAL == 2
\* startMany: "max(10, waitTimeout + 10)"
LaunchWaitFloor == 10

----------------------------------------------------------------------------
(* Strings of the configuration and Python's order on them *)

StrOrder == <<"", "a", "b", "c", "g", "h", "t", "x">>

StrRank(s) == CHOOSE i \in 1..Len(StrOrder) : StrOrder[i] = s

StrLess(s, t) == StrRank(s) < StrRank(t)

Names == {"a", "b", "c"}

Groups == {"g", "h"}

NoPid == 0

\* monGap of a name the monitor has started at most once: more than any two
\* readings of the clock are apart
NoGap == MaxTime + 1

Pids == 1..MaxProcs

Threads == {"ui", "mon", "w1", "red"}

Slots == 1..MaxRunners

VARIABLES
    profiles,        \* self.data["profiles"]: sequence of profile records
    processes,       \* self.processes: name -> pid, NoPid when absent
    status_map,      \* self.status_map: name -> "Stopped" | "Starting" | "Running"
    conn_status,     \* self.conn_status: name -> "-" | "Waiting..." | "Online" | "Offline"
    stop_event,      \* self._stop_event.is_set()
    user_stop_flags, \* self._user_stop_flags: name -> BOOLEAN (absent = FALSE)
    launching,       \* self._launching: set of names
    last_restart,    \* self._last_restart: name -> time (absent = 0)
    alive,           \* OS: handles of spawned processes that have not exited
    owner,           \* OS: live handle -> name of the profile it was spawned for
    clock,           \* time.time()
    pc,              \* thread -> position in its code
    tname,           \* thread -> local "name"/"prof" of the call in progress
    idx,             \* thread -> loop index (enumerate / for)
    tp,              \* thread -> local process handle "p"
    timer,           \* thread -> local deadline / end / wake-up time
    m_now,           \* crash monitor: local "now" of the cycle
    w_mode,          \* worker: which startMany call site created it
    w_gset,          \* worker: "gset" of _start_groups
    w_profs,         \* worker: local sorted list "profs"
    snap,            \* _on_close: list(self.processes.items())
    group_modes,     \* self.data["groupModes"]: group -> "on" | "off" | "redis"
    override,        \* self.data["autoStartGroupsOverride"]
    runner,          \* <<name, slot>> -> runner thread of one _start_profile
    ops,             \* history: number of commands the user has given
    initiated,       \* history: names the worker has called _start_profile for
    settledAt,       \* history: clock when the worker's wait for the last name ended
    sawInFlight,     \* history: thread -> name was in _launching when the call began
    monStarted,      \* history: name -> clock of the monitor's last _start_profile call
    monGap,          \* history: name -> seconds between the monitor's last two calls
    recon,           \* _redis_monitor: locals of the cycle, and history of its decisions
    conf,            \* the document in launch.conf
    data,            \* self.data: its entries other than profiles and the group settings
    redis_mon,       \* self._redis_monitor_running, self._redis_client, and history
    gui,             \* gui_launcher.py: AppGUI and its auto-start worker threads
    reach_call       \* one can_reach call: its target, what the network does, its result

vars == <<profiles, processes, status_map, conn_status, stop_event,
          user_stop_flags, launching, last_restart, alive, owner,
          clock, pc, tname, idx, tp, timer, m_now, w_mode, w_gset, w_profs,
          snap, group_modes, override, runner, ops, initiated, settledAt, sawInFlight,
          monStarted, monGap, recon, conf, data, redis_mon, gui, reach_call>>

\* groups of variables, for the frame conditions
registry == <<processes, status_map, conn_status, user_stop_flags, launching>>
osvars   == <<alive, owner>>
monvars  == <<last_restart, m_now, monStarted, monGap, recon>>
wvars    == <<w_mode, w_gset, w_profs, initiated, settledAt, group_modes, override>>
locals   == <<pc, tname, idx, tp, timer>>

----------------------------------------------------------------------------
(* Profile store *)

Profile(n, g, o, wt, wto, ar, as) ==
    [name |-> n, group |-> g, order |-> o, path |-> "x",
     waitTarget |-> wt, waitTimeout |-> wto, waitInterval |-> 1,
     postLaunchDelay |-> 0, autoStart |-> as, autoRestart |-> ar]

\* an ungated profile with a postLaunchDelay
ProfileDelayed(n, g, o, d) ==
    [Profile(n, g, o, "", 0, FALSE, FALSE) EXCEPT !.postLaunchDelay = d]

ProfNames(ps) == {ps[i].name : i \in 1..Len(ps)}

----------------------------------------------------------------------------
(* launch.conf: load_profiles and save_profiles.  A profile of the file is
   a JSON object: "has" is the set of its keys and "v" gives their values
   (a filler for the keys it has not).  The key "args" is left out. *)

\* the keys load_profiles reads into the normalized profile
KnownKeys == {"name", "group", "order", "path", "autoStart", "autoRestart",
              "waitTarget", "waitTimeout", "waitInterval", "postLaunchDelay"}

\* keys of the profiles of gui_launcher_profiles.py
ForeignKeys == {"kind", "value", "monitor"}

\* raw.get(k, d)
Get(raw, k, d) == IF k \in raw.has THEN raw.v[k] ELSE d

\* str.strip(), on the strings of the model
Strip(str) == IF str = " g" THEN "g" ELSE str

\* lines 77-99: the normalized profile "p" of a raw one
NormalizeProfile(raw) ==
    [name |-> IF Get(raw, "name", "") # "" THEN Get(raw, "name", "")
              ELSE IF Get(raw, "value", "") # "" THEN Get(raw, "value", "")
              ELSE IF Get(raw, "path", "") # "" THEN Get(raw, "path", "")
              ELSE "Unnamed",
     group |-> Strip(Get(raw, "group", "")),
     order |-> Get(raw, "order", 0),
     path |-> Strip(Get(raw, "path", "")),
     autoStart |-> Get(raw, "autoStart", FALSE),
     autoRestart |-> Get(raw, "autoRestart", FALSE),
     waitTarget |-> Strip(Get(raw, "waitTarget", "")),
     waitTimeout |-> Get(raw, "waitTimeout", 0),
     waitInterval |-> IF Get(raw, "waitInterval", 2) = 0 THEN 2
                      ELSE Get(raw, "waitInterval", 2),
     postLaunchDelay |-> Get(raw, "postLaunchDelay", 0)]

\* lines 67-103: the profiles of the loaded document; its other entries stay
\* as they are in the dictionary that json.load returned
load_profiles(doc) ==
    [profiles |-> [i \in 1..Len(doc.profiles) |-> NormalizeProfile(doc.profiles[i])],
     top |-> doc.top]

\* lines 309-317 of __init__, "self.data.setdefault(...)": of these entries
\* the model has redisHost
WithDefaults(top) ==
    IF \E e \in top : e[1] = "redisHost" THEN top
    ELSE top \cup {<<"redisHost", "localhost">>}

\* the JSON object json.dump writes for a profile of self.data
DumpProfile(p) ==
    [has |-> KnownKeys,
     v |-> [name |-> p.name, group |-> p.group, order |-> p.order, path |-> p.path,
            autoStart |-> p.autoStart, autoRestart |-> p.autoRestart,
            waitTarget |-> p.waitTarget, waitTimeout |-> p.waitTimeout,
            waitInterval |-> p.waitInterval, postLaunchDelay |-> p.postLaunchDelay,
            kind |-> "", value |-> "", monitor |-> 0]]

\* lines 109-113: json.dump(data, f)
save_profiles(ps, top) ==
    [profiles |-> [i \in 1..Len(ps) |-> DumpProfile(ps[i])], top |-> top]

\* next((p for p in profiles if p.get("name") == name), None): the first
\* profile of that name.  A thread that was called with a profile keeps the
\* values it read from it (lines 527-533) when the profile leaves the store; in
\* the scenarios where profiles leave the store every profile is ungated,
\* ungrouped or not, with the path "x", which is all such a thread reads again.
ProfOf(n) ==
    IF n \in ProfNames(profiles)
    THEN profiles[CHOOSE i \in 1..Len(profiles) :
                      /\ profiles[i].name = n
                      /\ \A j \in 1..(i - 1) : profiles[j].name # n]
    ELSE Profile(n, "", 0, "", 0, FALSE, FALSE)

\* existing and existing.poll() is None
IsLive(p) == p # NoPid /\ p \in alive

\* the processes of ps are gone: terminated, killed or exited
Gone(ps) ==
    /\ alive' = alive \ ps
    /\ owner' = [p \in Pids |-> IF p \in ps THEN "" ELSE owner[p]]

\* handles some dictionary entry or some thread's local still refers to
Referenced ==
    {processes[n] : n \in Names} \cup {tp[t] : t \in Threads}
        \cup {snap[i][2] : i \in 1..Len(snap)}
        \cup {recon.sawDead[n] : n \in Names}

\* the handle the next Popen returns: the least one that is neither alive nor
\* referenced, NoPid when there is none
FreePid ==
    IF \E p \in Pids : p \notin alive /\ p \notin Referenced
    THEN CHOOSE p \in Pids : /\ p \notin alive /\ p \notin Referenced
                             /\ \A q \in Pids : (q \notin alive /\ q \notin Referenced) => p <= q
    ELSE NoPid

\* a runner slot no thread occupies; "probed" and "shut" are history: whether
\* the runner has called can_reach, and whether the stop event was set while
\* the runner was inside wait_for_connectivity
FreeRunner == [pc |-> "free", deadline |-> 0, wake |-> 0, ok |-> FALSE,
               probed |-> FALSE, shut |-> FALSE]

Closed == pc["ui"] = "closed"

\* the reconciler between two cycles: "gi" is the position of the for loop over
\* groupModes, "value" the reply of the store, "profs" the names of "profs";
\* "err", "errStop" and "last" are history: the lookup of the current group
\* raised, a stop was decided in this cycle after a lookup that raised, and the
\* last decision taken ("start", "stop" or "none") with what it observed
\* "sawDead" is history: for each name, the handle the last poll of this cycle
\* found dead
FreeRecon == [gi |-> 0, value |-> "", profs |-> <<>>, stopped |-> {},
              sawDead |-> [n \in Names |-> NoPid], err |-> FALSE,
              errStop |-> FALSE, last |-> "", lastRunning |-> FALSE]

----------------------------------------------------------------------------
(* State after SimpleLauncherApp.__init__ *)

\* two ungated profiles of one group, listed against their launch order
StartConfigs ==
    { << Profile("b", "g", 2, "", 0, FALSE, FALSE),
         Profile("a", "g", 1, "", 0, FALSE, FALSE) >> }

\* one ungated profile with autoRestart
MonitorConfigs == { << Profile("a", "g", 1, "", 0, TRUE, FALSE) >> }

\* two ungated profiles with autoRestart
FaultConfigs ==
    { << Profile("a", "g", 1, "", 0, TRUE, FALSE),
         Profile("b", "g", 2, "", 0, TRUE, FALSE) >> }

\* three profiles listed as c, a, b, with every choice of groups and orders;
\* a and c have autoStart
SortConfigs ==
    { << Profile("c", gs[1], os[1], "", 0, FALSE, TRUE),
         Profile("a", gs[2], os[2], "", 0, FALSE, TRUE),
         Profile("b", gs[3], os[3], "", 0, FALSE, FALSE) >> :
         gs \in {"", "g", "h"} \X {"", "g", "h"} \X {"", "g", "h"},
         os \in {1, 2} \X {1, 2} \X {1, 2} }

\* b listed before a, a launched first with postLaunchDelay 2, grouped or not;
\* b, launched last, grouped, with or without a postLaunchDelay
DelayConfigs ==
    { << ProfileDelayed("b", "g", 2, db), ProfileDelayed("a", ga, 1, 2) >> :
         ga \in {"", "g"}, db \in {0, 1} }

\* group g with a listed before b and b launched first, group h with c
ReconConfigs ==
    { << Profile("a", "g", 2, "", 0, FALSE, FALSE),
         Profile("b", "g", 1, "", 0, FALSE, FALSE),
         Profile("c", "h", 1, "", 0, FALSE, FALSE) >> }

\* a profile of a file: with the keys of this program alone, with those of the
\* other program besides, or with those and no name
RawProfiles ==
    { [has |-> h,
       v |-> [name |-> IF "name" \in h THEN n ELSE "", group |-> "g", order |-> 1,
              path |-> "x", autoStart |-> FALSE, autoRestart |-> FALSE,
              waitTarget |-> "", waitTimeout |-> 0, waitInterval |-> 2,
              postLaunchDelay |-> 0,
              kind |-> IF "kind" \in h THEN "Process" ELSE "",
              value |-> IF "value" \in h THEN "v" ELSE "",
              monitor |-> IF "monitor" \in h THEN 1 ELSE 0]] :
        h \in {KnownKeys, KnownKeys \cup ForeignKeys,
               (KnownKeys \ {"name"}) \cup ForeignKeys},
        n \in {"a", "b"} }

\* the entries of a file besides its profiles: Redis settings or none, an entry
\* the program does not know or none
TopEntries ==
    { hs \cup ls : hs \in {{}, {<<"redisHost", "h1">>}},
                   ls \in {{}, {<<"layout", "wide">>}} }

\* the sequences over S of length n
SeqsOf(S, n) == [1..n -> S]

\* the files: up to MaxDocLen profiles
ConfDocs ==
    { [profiles |-> ps, top |-> t] :
        ps \in UNION {SeqsOf(RawProfiles, n) : n \in 0..MaxDocLen}, t \in TopEntries }

\* one profile: no waitTarget, or a waitTarget with waitTimeout 0 or 2
WaitConfigs ==
    { << Profile("a", "g", 1, tw[1], tw[2], FALSE, FALSE) >> :
         tw \in {<<"", 0>>, <<"t", 0>>, <<"t", 2>>} }

\* a, launched first, with a waitTarget and waitTimeout 1, or ungated; b ungated,
\* launched last, listed first
ManyConfigs ==
    { << Profile("b", "g", 2, "", 0, FALSE, FALSE),
         Profile("a", "g", 1, tw[1], tw[2], FALSE, FALSE) >> :
         tw \in {<<"", 0>>, <<"t", 1>>} }

GuiWorkers == 1..MaxGuiWorkers

\* an auto-start worker slot no thread occupies; "ev" is the threading.Event the
\* worker passed as cancel_event, "start" and "wake" are locals of
\* launcher.wait_for_connectivity; "probed" and "cut" are history: the waiter
\* has called _can_reach, and the event was set while a probe was under way
FreeGuiWorker == [pc |-> "free", ev |-> 0, start |-> 0, wake |-> 0,
                  probed |-> FALSE, cut |-> FALSE]

\* AppGUI.__init__, lines 78-82: no control process, a fresh cancel event (the
\* events are numbered), and _start_on_launch has created the first worker;
\* "launches" and "saves" are history: the launch_process calls of the workers
\* and the save_config calls
InitGui ==
    [cancel |-> 1, set_events |-> {}, ctrl |-> FALSE, launches |-> 0, saves |-> 0,
     w |-> [i \in GuiWorkers |-> IF i = 1 THEN [FreeGuiWorker EXCEPT !.pc = "a_resolve"]
                                 ELSE FreeGuiWorker]]

\* SimpleLauncherApp.__init__, lines 325-326 and 339: the reconciler is started
\* when a group is in "redis" mode; "cycled" and "stale" are history: the loop
\* thread has ended a cycle, a new loop thread was started while the thread of
\* an earlier start had not left its loop, and _start_redis_monitor has been
\* called since the loop thread was started
InitRedisMon(gm) ==
    [running |-> \E g \in Groups : gm[g] = "redis",
     client |-> \E g \in Groups : gm[g] = "redis",
     cycled |-> FALSE, stale |-> FALSE, restarted |-> FALSE]

InitRuntime(gm, ov) ==
    /\ gui = InitGui
    /\ redis_mon = InitRedisMon(gm)
    /\ group_modes = gm
    /\ override = ov
    /\ processes = [n \in Names |-> NoPid]
    /\ status_map = [n \in Names |-> "Stopped"]
    /\ conn_status = [n \in Names |-> "-"]
    /\ stop_event = FALSE
    /\ user_stop_flags = [n \in Names |-> FALSE]
    /\ launching = {}
    /\ last_restart = [n \in Names |-> 0]
    /\ alive = {}
    /\ owner = [p \in Pids |-> ""]
    /\ clock = Epoch
    /\ pc = [t \in Threads |-> IF t = "ui" THEN "idle"
                               ELSE IF t = "mon" THEN "m_top"
                               ELSE IF t = "w1" THEN "w_free"
                               ELSE IF \E g \in Groups : gm[g] = "redis" THEN "x_top"
                               ELSE "x_off"]
    /\ tname = [t \in Threads |-> ""]
    /\ idx = [t \in Threads |-> 0]
    /\ tp = [t \in Threads |-> NoPid]
    /\ timer = [t \in Threads |-> 0]
    /\ m_now = 0
    /\ w_mode = ""
    /\ w_gset = {}
    /\ w_profs = <<>>
    /\ snap = <<>>
    /\ runner = [k \in Names \X Slots |-> FreeRunner]
    /\ ops = 0
    /\ initiated = <<>>
    /\ settledAt = 0
    /\ sawInFlight = [t \in Threads |-> FALSE]
    /\ monStarted = [n \in Names |-> 0]
    /\ monGap = [n \in Names |-> NoGap]
    /\ recon = FreeRecon

----------------------------------------------------------------------------
(* can_reach of gui_launcher_simple.py.  A target is a string, here a sequence
   of characters; the targets tried are made of the pieces of TargetPieces. *)

TargetPieces == {"http://", "https://", "a", ":", "7"}

\* the characters of a piece
Chars(piece) ==
    IF piece = "http://" THEN <<"h", "t", "t", "p", ":", "/", "/">>
    ELSE IF piece = "https://" THEN <<"h", "t", "t", "p", "s", ":", "/", "/">>
    ELSE <<piece>>

RECURSIVE Flatten(_)
\* the string made of a sequence of pieces
Flatten(pieces) ==
    IF pieces = <<>> THEN <<>> ELSE Chars(Head(pieces)) \o Flatten(Tail(pieces))

\* str.startswith
StartsWith(str, prefix) ==
    Len(str) >= Len(prefix) /\ SubSeq(str, 1, Len(prefix)) = prefix

\* "c in str"
Contains(str, c) == \E i \in 1..Len(str) : str[i] = c

\* str.partition(":") of a string that contains ":"
Partition(str) ==
    LET i == CHOOSE j \in 1..Len(str) :
                 str[j] = ":" /\ \A l \in 1..(j - 1) : str[l] # ":"
    IN [host |-> SubSeq(str, 1, i - 1), port |-> SubSeq(str, i + 1, Len(str))]

\* str.isdigit
IsDigit(str) == str # <<>> /\ \A i \in 1..Len(str) : str[i] = "7"

\* lines 117-118
is_http_target(target) ==
    StartsWith(target, Chars("http://")) \/ StartsWith(target, Chars("https://"))

\* lines 121-127
is_tcp_target(target) ==
    IF ~Contains(target, ":") THEN FALSE
    ELSE Partition(target).host # <<>> /\ IsDigit(Partition(target).port)

\* lines 150-159: the probe made, if any, and the value returned; net tells
\* what each kind of probe of this target finds
can_reach(target, net) ==
    IF target = <<>> THEN [probe |-> "none", result |-> FALSE]
    ELSE IF is_http_target(target) THEN [probe |-> "http", result |-> net.http]
    ELSE IF is_tcp_target(target) THEN [probe |-> "tcp", result |-> net.tcp]
    ELSE [probe |-> "none", result |-> FALSE]

Networks == [http : BOOLEAN, tcp : BOOLEAN, ping : BOOLEAN]

\* no can_reach call under study
NoReach == [target |-> <<>>, net |-> [http |-> FALSE, tcp |-> FALSE, ping |-> FALSE],
            done |-> FALSE, out |-> [probe |-> "", result |-> FALSE]]

\* can_reach is called on the target
can_reach_call ==
    /\ ~reach_call.done
    /\ reach_call' = [reach_call EXCEPT !.done = TRUE, !.out = can_reach(reach_call.target, reach_call.net)]
    /\ UNCHANGED <<profiles, conf, data, gui, redis_mon, ops, registry, stop_event, osvars,
                   clock, locals, monvars, wvars, snap, runner, sawInFlight>>

\* "self.data = load_profiles()" (line 307) on the file that holds the profiles ps
InitWith(ps, gm, ov) ==
    /\ reach_call = NoReach
    /\ conf = save_profiles(ps, {})
    /\ profiles = ps
    /\ data = WithDefaults({})
    /\ InitRuntime(gm, ov)

NoGroupModes == [g \in Groups |-> "off"]

Init == \E ps \in StartConfigs \cup MonitorConfigs \cup WaitConfigs :
            InitWith(ps, NoGroupModes, FALSE)

----------------------------------------------------------------------------
(* _start_profile: the part that runs on the calling thread *)

\* where a thread continues when _start_profile returns to it
ReturnPc(t) ==
    IF t = "ui" THEN "idle" ELSE IF t = "mon" THEN "m_check" ELSE "w_wait"

\* startMany, after the call: "timeout = max(10, int(prof.get("waitTimeout", 0) or 0) + 10)"
LaunchWait(n) ==
    IF ProfOf(n).waitTimeout + 10 > LaunchWaitFloor
    THEN ProfOf(n).waitTimeout + 10
    ELSE LaunchWaitFloor

\* the caller's locals when _start_profile(n) returns: the monitor's for loop
\* moves on, the startMany worker computes "deadline = time.time() + timeout"
\* and keeps "name" for its wait
Return(t, n) ==
    /\ pc' = [pc EXCEPT ![t] = ReturnPc(t)]
    /\ idx' = [idx EXCEPT ![t] = IF t = "mon" THEN @ + 1 ELSE @]
    /\ timer' = [timer EXCEPT ![t] = IF t = "w1" THEN clock + LaunchWait(n) ELSE @]
    /\ tname' = [tname EXCEPT ![t] = IF t = "w1" THEN n ELSE ""]
    /\ tp' = [tp EXCEPT ![t] = NoPid]
    /\ sawInFlight' = [sawInFlight EXCEPT ![t] = FALSE]

\* lines 527-540: read the arguments, refuse an empty path, then
\* "existing = self.processes.get(name)" and poll it
StartProfileEntry(t, n) ==
    IF ProfOf(n).path = "" \/ IsLive(processes[n])
    THEN Return(t, n)
    ELSE /\ pc' = [pc EXCEPT ![t] = "sp_launching"]
         /\ tname' = [tname EXCEPT ![t] = n]
         /\ tp' = [tp EXCEPT ![t] = NoPid]
         /\ sawInFlight' = [sawInFlight EXCEPT ![t] = n \in launching]
         /\ UNCHANGED <<idx, timer>>

\* lines 541-542: "if name in self._launching: return"
StartProfileCheckLaunching(t) ==
    /\ ~Closed
    /\ pc[t] = "sp_launching"
    /\ IF tname[t] \in launching
       THEN Return(t, tname[t])
       ELSE /\ pc' = [pc EXCEPT ![t] = "sp_add"]
            /\ UNCHANGED <<idx, timer, tname, tp, sawInFlight>>
    /\ UNCHANGED <<profiles, conf, data, gui, redis_mon, reach_call, ops, registry, stop_event, osvars, clock, monvars, wvars,
                   snap, runner>>

\* the least free runner slot of a name, 0 when there is none
FreeSlot(n) ==
    IF \E k \in Slots : runner[<<n, k>>].pc = "free"
    THEN CHOOSE k \in Slots : /\ runner[<<n, k>>].pc = "free"
                              /\ \A j \in Slots : runner[<<n, j>>].pc = "free" => k <= j
    ELSE 0

\* lines 545 and 578: "self._launching.add(name)", then the runner thread is
\* created and started; the call returns
StartProfileAdd(t) ==
    /\ ~Closed
    /\ pc[t] = "sp_add"
    /\ FreeSlot(tname[t]) # 0
    /\ launching' = launching \cup {tname[t]}
    /\ runner' = [runner EXCEPT ![<<tname[t], FreeSlot(tname[t])>>] =
                     [FreeRunner EXCEPT !.pc = "r_begin"]]
    /\ Return(t, tname[t])
    /\ UNCHANGED <<profiles, conf, data, gui, redis_mon, reach_call, ops, processes, status_map, conn_status, user_stop_flags,
                   stop_event, osvars, clock, monvars, wvars, snap>>

----------------------------------------------------------------------------
(* wait_for_connectivity and can_reach, as the runner thread executes them *)

\* variant of WaitShortCircuit in which a timeout of 0 no longer ends the wait
\* (launcher.py reads 0 as "wait forever")
WaitShortCircuitTargetOnly(target, total_timeout) == target = ""

\* line 163: "if not target or total_timeout <= 0: return True"
WaitShortCircuit(target, total_timeout) == target = "" \/ total_timeout <= 0

\* line 169: "time.sleep(max(0.2, interval))", in whole seconds of the clock
SleepSeconds(interval) == IF interval >= 1 THEN interval ELSE 0

----------------------------------------------------------------------------
(* _start_profile.runner: one thread per accepted start, k = <<name, slot>> *)

RunnerKeys == Names \X Slots

\* lines 548-552: status "Starting", the user-stop flag is cleared
RunnerBegin(k) ==
    /\ ~Closed
    /\ runner[k].pc = "r_begin"
    /\ status_map' = [status_map EXCEPT ![k[1]] = "Starting"]
    /\ user_stop_flags' = [user_stop_flags EXCEPT ![k[1]] = FALSE]
    /\ runner' = [runner EXCEPT ![k].pc =
                     IF ProfOf(k[1]).waitTarget # "" THEN "r_wait" ELSE "r_spawn"]
    /\ UNCHANGED <<profiles, conf, data, gui, redis_mon, reach_call, ops, processes, conn_status, launching, stop_event, osvars,
                   clock, locals, monvars, wvars, snap, sawInFlight>>

\* lines 553-555 and 163-165: "Waiting...", then the waiter's short circuit or
\* "deadline = time.time() + total_timeout"
RunnerWaitEnter(k) ==
    /\ ~Closed
    /\ runner[k].pc = "r_wait"
    /\ conn_status' = [conn_status EXCEPT ![k[1]] = "Waiting..."]
    /\ IF WaitShortCircuit(ProfOf(k[1]).waitTarget, ProfOf(k[1]).waitTimeout)
       THEN runner' = [runner EXCEPT ![k].pc = "r_waitdone", ![k].ok = TRUE]
       ELSE runner' = [runner EXCEPT ![k].pc = "r_probe",
                          ![k].deadline = clock + ProfOf(k[1]).waitTimeout]
    /\ UNCHANGED <<profiles, conf, data, gui, redis_mon, reach_call, ops, processes, status_map, user_stop_flags, launching,
                   stop_event, osvars, clock, locals, monvars, wvars, snap,
                   sawInFlight>>

\* variant of RunnerProbe without the loop: the first failed probe ends the
\* wait with False
RunnerProbeOnce(k) ==
    /\ ~Closed
    /\ runner[k].pc = "r_probe"
    /\ \E reach \in BOOLEAN :
          runner' = [runner EXCEPT ![k].pc = "r_waitdone", ![k].ok = reach,
                        ![k].probed = TRUE]
    /\ UNCHANGED <<profiles, conf, data, gui, redis_mon, reach_call, ops, registry, stop_event, osvars,
                   clock, locals, monvars, wvars, snap, sawInFlight>>

\* variant of RunnerProbe whose loop has no deadline ("while True"): it probes
\* until the target is reachable
RunnerProbeNoDeadline(k) ==
    /\ ~Closed
    /\ runner[k].pc = "r_probe"
    /\ \E reach \in BOOLEAN :
          IF reach
          THEN runner' = [runner EXCEPT ![k].pc = "r_waitdone", ![k].ok = TRUE,
                             ![k].probed = TRUE]
          ELSE runner' = [runner EXCEPT ![k].pc = "r_sleep", ![k].probed = TRUE,
                             ![k].wake = clock + SleepSeconds(ProfOf(k[1]).waitInterval)]
    /\ UNCHANGED <<profiles, conf, data, gui, redis_mon, reach_call, ops, registry, stop_event, osvars, clock, locals, monvars,
                   wvars, snap, sawInFlight>>

\* lines 166-168 and 170: one can_reach(target), inside the loop while the
\* deadline lies ahead, and the final one once it has passed
RunnerProbe(k) ==
    /\ ~Closed
    /\ runner[k].pc = "r_probe"
    /\ \E reach \in BOOLEAN :
          IF clock < runner[k].deadline
          THEN IF reach
               THEN runner' = [runner EXCEPT ![k].pc = "r_waitdone", ![k].ok = TRUE,
                                  ![k].probed = TRUE]
               ELSE runner' = [runner EXCEPT ![k].pc = "r_sleep", ![k].probed = TRUE,
                                  ![k].wake = clock + SleepSeconds(ProfOf(k[1]).waitInterval)]
          ELSE runner' = [runner EXCEPT ![k].pc = "r_waitdone", ![k].ok = reach,
                             ![k].probed = TRUE]
    /\ UNCHANGED <<profiles, conf, data, gui, redis_mon, reach_call, ops, registry, stop_event, osvars, clock, locals, monvars,
                   wvars, snap, sawInFlight>>

\* line 169: the sleep between two probes is over
RunnerSleep(k) ==
    /\ ~Closed
    /\ runner[k].pc = "r_sleep"
    /\ clock >= runner[k].wake
    /\ runner' = [runner EXCEPT ![k].pc = "r_probe"]
    /\ UNCHANGED <<profiles, conf, data, gui, redis_mon, reach_call, ops, registry, stop_event, osvars, clock, locals, monvars,
                   wvars, snap, sawInFlight>>

\* variant of RunnerWaitDone that forgets "self._launching.discard(name)" on the
\* failure path
RunnerWaitDoneKeepsLaunching(k) ==
    /\ ~Closed
    /\ runner[k].pc = "r_waitdone"
    /\ conn_status' = [conn_status EXCEPT ![k[1]] =
                          IF runner[k].ok THEN "Online" ELSE "Offline"]
    /\ IF runner[k].ok
       THEN /\ runner' = [runner EXCEPT ![k].pc = "r_spawn"]
            /\ UNCHANGED status_map
       ELSE /\ status_map' = [status_map EXCEPT ![k[1]] = "Stopped"]
            /\ runner' = [runner EXCEPT ![k] = FreeRunner]
    /\ UNCHANGED <<profiles, conf, data, gui, redis_mon, reach_call, ops, processes, user_stop_flags, launching, stop_event,
                   osvars, clock, locals, monvars, wvars, snap, sawInFlight>>

\* lines 556-563: "Online"/"Offline"; when the wait failed: "Stopped", the name
\* leaves _launching and the runner returns without spawning
RunnerWaitDone(k) ==
    /\ ~Closed
    /\ runner[k].pc = "r_waitdone"
    /\ conn_status' = [conn_status EXCEPT ![k[1]] =
                          IF runner[k].ok THEN "Online" ELSE "Offline"]
    /\ IF runner[k].ok
       THEN /\ runner' = [runner EXCEPT ![k].pc = "r_spawn"]
            /\ UNCHANGED <<status_map, launching>>
       ELSE /\ status_map' = [status_map EXCEPT ![k[1]] = "Stopped"]
            /\ launching' = launching \ {k[1]}
            /\ runner' = [runner EXCEPT ![k] = FreeRunner]
    /\ UNCHANGED <<profiles, conf, data, gui, redis_mon, reach_call, ops, processes, user_stop_flags, stop_event, osvars, clock,
                   locals, monvars, wvars, snap, sawInFlight>>

\* lines 565-568: Popen succeeds and the handle is recorded
RunnerSpawn(k) ==
    /\ ~Closed
    /\ runner[k].pc = "r_spawn"
    /\ FreePid # NoPid
    /\ alive' = alive \cup {FreePid}
    /\ owner' = [owner EXCEPT ![FreePid] = k[1]]
    /\ processes' = [processes EXCEPT ![k[1]] = FreePid]
    /\ runner' = [runner EXCEPT ![k].pc = "r_started"]
    /\ UNCHANGED <<profiles, conf, data, gui, redis_mon, reach_call, ops, status_map, conn_status, user_stop_flags, launching,
                   stop_event, clock, locals, monvars, wvars, snap, sawInFlight>>

\* variant of RunnerSpawnFails without the "finally" of line 574: the name
\* stays in _launching
RunnerSpawnFailsKeepsLaunching(k) ==
    /\ ~Closed
    /\ runner[k].pc = "r_spawn"
    /\ status_map' = [status_map EXCEPT ![k[1]] = "Stopped"]
    /\ runner' = [runner EXCEPT ![k] = FreeRunner]
    /\ UNCHANGED <<profiles, conf, data, gui, redis_mon, reach_call, ops, processes, conn_status, user_stop_flags,
                   launching, stop_event, osvars, clock, locals, monvars, wvars, snap,
                   sawInFlight>>

\* lines 565-567 and 571-576: Popen raises; "Stopped", the name leaves _launching
RunnerSpawnFails(k) ==
    /\ ~Closed
    /\ runner[k].pc = "r_spawn"
    /\ status_map' = [status_map EXCEPT ![k[1]] = "Stopped"]
    /\ launching' = launching \ {k[1]}
    /\ runner' = [runner EXCEPT ![k] = FreeRunner]
    /\ UNCHANGED <<profiles, conf, data, gui, redis_mon, reach_call, ops, processes, conn_status, user_stop_flags, stop_event,
                   osvars, clock, locals, monvars, wvars, snap, sawInFlight>>

\* lines 569-570 and 574-576: "Running", the name leaves _launching
RunnerStarted(k) ==
    /\ ~Closed
    /\ runner[k].pc = "r_started"
    /\ status_map' = [status_map EXCEPT ![k[1]] = "Running"]
    /\ launching' = launching \ {k[1]}
    /\ runner' = [runner EXCEPT ![k] = FreeRunner]
    /\ UNCHANGED <<profiles, conf, data, gui, redis_mon, reach_call, ops, processes, conn_status, user_stop_flags, stop_event,
                   osvars, clock, locals, monvars, wvars, snap, sawInFlight>>

----------------------------------------------------------------------------
(* Environment: the spawned processes, the clock, the monitored targets *)

\* a spawned process exits on its own (a crash or a normal end)
ProcessExits(p) ==
    /\ p \in alive
    /\ Gone({p})
    /\ UNCHANGED <<profiles, conf, data, gui, redis_mon, reach_call, ops, registry, stop_event, clock, locals,
                   monvars, wvars, snap, runner, sawInFlight>>

\* one second passes, up to the last value of the clock
TickTo(last) ==
    /\ ~Closed
    /\ clock < last
    /\ clock' = clock + 1
    /\ UNCHANGED <<profiles, conf, data, gui, redis_mon, reach_call, ops, registry, stop_event, osvars, locals, monvars, wvars,
                   snap, runner, sawInFlight>>

\* one second passes
Tick ==
    /\ ~Closed
    /\ clock < MaxTime
    /\ clock' = clock + 1
    /\ UNCHANGED <<profiles, conf, data, gui, redis_mon, reach_call, ops, registry, stop_event, osvars, locals, monvars, wvars,
                   snap, runner, sawInFlight>>

\* _conn_monitor, lines 806-816: one profile's target is probed and its
\* connectivity column refreshed
ConnMonitor(n) ==
    /\ ~Closed
    /\ n \in ProfNames(profiles)
    /\ ProfOf(n).waitTarget # ""
    /\ \E ok \in BOOLEAN :
          conn_status' = [conn_status EXCEPT ![n] = IF ok THEN "Online" ELSE "Offline"]
    /\ UNCHANGED <<profiles, conf, data, gui, redis_mon, reach_call, ops, processes, status_map, user_stop_flags, launching,
                   stop_event, osvars, clock, locals, monvars, wvars, snap, runner,
                   sawInFlight>>

----------------------------------------------------------------------------
(* User commands on the main thread *)

\* on_start_selected, lines 597-604, up to the first check of _start_profile
on_start_selected(n) ==
    /\ ops < MaxUserOps
    /\ ops' = ops + 1
    /\ pc["ui"] = "idle"
    /\ n \in ProfNames(profiles)
    /\ StartProfileEntry("ui", n)
    /\ UNCHANGED <<profiles, conf, data, gui, redis_mon, reach_call, registry, stop_event, osvars, clock, monvars, wvars,
                   snap, runner>>

\* on_stop_selected, lines 606-613, and line 582 of _stop_profile:
\* "self._user_stop_flags[name] = True"
on_stop_selected(n) ==
    /\ ops < MaxUserOps
    /\ ops' = ops + 1
    /\ pc["ui"] = "idle"
    /\ n \in ProfNames(profiles)
    /\ user_stop_flags' = [user_stop_flags EXCEPT ![n] = TRUE]
    /\ tname' = [tname EXCEPT !["ui"] = n]
    /\ pc' = [pc EXCEPT !["ui"] = "st_term"]
    /\ UNCHANGED <<profiles, conf, data, gui, redis_mon, reach_call, processes, status_map, conn_status, launching,
                   stop_event, osvars, clock, idx, tp, timer, monvars, wvars, snap,
                   runner, sawInFlight>>

\* _stop_profile, lines 583-592: the recorded process, if alive, is terminated
\* and, after the grace period, killed
StopTerminate(t) ==
    /\ pc[t] = "st_term"
    /\ Gone({processes[tname[t]]} \ {NoPid})
    /\ pc' = [pc EXCEPT ![t] = "st_pop"]
    /\ UNCHANGED <<profiles, conf, data, gui, redis_mon, reach_call, ops, registry, stop_event, clock, tname, idx,
                   tp, timer, monvars, wvars, snap, runner, sawInFlight>>

\* _stop_profile, line 593: "self.processes.pop(name, None)"
StopPop(t) ==
    /\ pc[t] = "st_pop"
    /\ processes' = [processes EXCEPT ![tname[t]] = NoPid]
    /\ pc' = [pc EXCEPT ![t] = "st_status"]
    /\ UNCHANGED <<profiles, conf, data, gui, redis_mon, reach_call, ops, status_map, conn_status, user_stop_flags, launching,
                   stop_event, osvars, clock, tname, idx, tp, timer, monvars, wvars,
                   snap, runner, sawInFlight>>

\* _stop_profile, lines 594-595: "Stopped"; the call returns, to the main loop
\* or to the reconciler's loop over "profs"
StopStatus(t) ==
    /\ pc[t] = "st_status"
    /\ status_map' = [status_map EXCEPT ![tname[t]] = "Stopped"]
    /\ pc' = [pc EXCEPT ![t] = IF t = "red" THEN "x_stop" ELSE "idle"]
    /\ tname' = [tname EXCEPT ![t] = ""]
    /\ UNCHANGED <<profiles, conf, data, gui, redis_mon, reach_call, ops, processes, conn_status, user_stop_flags, launching,
                   stop_event, osvars, clock, idx, tp, timer, monvars, wvars,
                   snap, runner, sawInFlight>>

----------------------------------------------------------------------------
(* on_add, on_edit, on_delete: the profile store, on the main thread *)

\* what ProfileEditor.on_ok can return (lines 257-293): any name, here with
\* the group g, an order, and no connectivity gate
EditorResults == {Profile(n, "g", o, "", 0, FALSE, FALSE) : n \in Names, o \in {1, 2}}

\* _load_table, lines 436-442: the connectivity column of every stored profile
\* without waitTarget is "-"; a missing status reads "Stopped", as it does in
\* status_map here
LoadTable(ps) ==
    [n \in Names |->
        IF \E i \in 1..Len(ps) : ps[i].name = n /\ ps[i].waitTarget = ""
        THEN "-" ELSE conn_status[n]]

\* on_add, lines 477-486: a name already in the store is refused
on_add(r) ==
    /\ ops < MaxUserOps
    /\ ops' = ops + 1
    /\ pc["ui"] = "idle"
    /\ IF r.name \in ProfNames(profiles)
       THEN UNCHANGED <<profiles, conn_status>>
       ELSE /\ profiles' = Append(profiles, r)
            /\ conn_status' = LoadTable(Append(profiles, r))
    /\ UNCHANGED <<processes, status_map, user_stop_flags, launching, stop_event,
                   osvars, clock, locals, monvars, wvars, snap, runner, sawInFlight>>
    /\ UNCHANGED <<conf, data, gui, redis_mon, reach_call>>

\* the first position of name n in ps
FirstIndex(ps, n) ==
    CHOOSE i \in 1..Len(ps) : ps[i].name = n /\ \A j \in 1..(i - 1) : ps[j].name # n

\* on_edit, lines 488-505: the first profile with the selected name is
\* replaced by the editor's result, whatever its name
on_edit(n, r) ==
    /\ ops < MaxUserOps
    /\ ops' = ops + 1
    /\ pc["ui"] = "idle"
    /\ n \in ProfNames(profiles)
    /\ profiles' = [profiles EXCEPT ![FirstIndex(profiles, n)] = r]
    /\ conn_status' = LoadTable(profiles')
    /\ UNCHANGED <<processes, status_map, user_stop_flags, launching, stop_event,
                   osvars, clock, locals, monvars, wvars, snap, runner, sawInFlight>>
    /\ UNCHANGED <<conf, data, gui, redis_mon, reach_call>>

\* on_delete, lines 507-516: every profile with the selected name leaves the
\* store, and the name's entries leave processes, status_map and conn_status
on_delete(n) ==
    /\ ops < MaxUserOps
    /\ ops' = ops + 1
    /\ pc["ui"] = "idle"
    /\ n \in ProfNames(profiles)
    /\ LET Others(p) == p.name # n
       IN  /\ profiles' = SelectSeq(profiles, Others)
           /\ conn_status' = [LoadTable(SelectSeq(profiles, Others)) EXCEPT ![n] = "-"]
    /\ processes' = [processes EXCEPT ![n] = NoPid]
    /\ status_map' = [status_map EXCEPT ![n] = "Stopped"]
    /\ UNCHANGED <<user_stop_flags, launching, stop_event, osvars, clock, locals,
                   monvars, wvars, snap, runner, sawInFlight>>
    /\ UNCHANGED <<conf, data, gui, redis_mon, reach_call>>

\* on_save, lines 518-523: "save_profiles(self.data)"
on_save ==
    /\ pc["ui"] = "idle"
    /\ conf' = save_profiles(profiles, data)
    /\ UNCHANGED <<profiles, data, gui, redis_mon, reach_call, registry, stop_event, osvars, clock, locals, monvars,
                   wvars, snap, runner, ops, sawInFlight>>

----------------------------------------------------------------------------
(* _on_close: the shutdown handler, on the main thread *)

\* lines 958-961: "self._stop_event.set()"; the runners that are inside
\* wait_for_connectivity at this moment are marked
CloseSignal ==
    /\ ops < MaxUserOps
    /\ ops' = ops + 1
    /\ pc["ui"] = "idle"
    /\ stop_event' = TRUE
    /\ pc' = [pc EXCEPT !["ui"] = "cl_snap"]
    /\ runner' = [k \in Names \X Slots |->
                     IF runner[k].pc \in {"r_probe", "r_sleep"}
                     THEN [runner[k] EXCEPT !.shut = TRUE]
                     ELSE runner[k]]
    /\ UNCHANGED <<profiles, conf, data, gui, redis_mon, reach_call, registry, osvars, clock, tname, idx, tp, timer, monvars,
                   wvars, snap, sawInFlight>>

RECURSIVE ItemsOf(_, _)
\* the (name, handle) pairs of the names of "order" that have an entry in d
ItemsOf(d, order) ==
    IF order = <<>> THEN <<>>
    ELSE IF d[Head(order)] # NoPid
         THEN <<<<Head(order), d[Head(order)]>>>> \o ItemsOf(d, Tail(order))
         ELSE ItemsOf(d, Tail(order))

\* line 963: "list(self.processes.items())"
CloseSnapshot ==
    /\ pc["ui"] = "cl_snap"
    /\ snap' = ItemsOf(processes, <<"a", "b", "c">>)
    /\ idx' = [idx EXCEPT !["ui"] = 1]
    /\ pc' = [pc EXCEPT !["ui"] = "cl_loop"]
    /\ UNCHANGED <<profiles, conf, data, gui, redis_mon, reach_call, ops, registry, stop_event, osvars, clock, tname, tp, timer,
                   monvars, wvars, runner, sawInFlight>>

\* lines 963-973, one iteration: the name is flagged user-stopped and its
\* process, if alive, terminated and, after the grace period, killed
CloseTerminate ==
    /\ pc["ui"] = "cl_loop"
    /\ idx["ui"] <= Len(snap)
    /\ user_stop_flags' = [user_stop_flags EXCEPT ![snap[idx["ui"]][1]] = TRUE]
    /\ Gone({snap[idx["ui"]][2]})
    /\ idx' = [idx EXCEPT !["ui"] = @ + 1]
    /\ UNCHANGED <<profiles, conf, data, gui, redis_mon, reach_call, ops, processes, status_map, conn_status, launching,
                   stop_event, clock, pc, tname, tp, timer, monvars,
                   wvars, snap, runner, sawInFlight>>

\* lines 974-977: "self.processes.clear()" and "self.destroy()": the main loop
\* ends and with it the engine and its daemon threads
CloseFinish ==
    /\ pc["ui"] = "cl_loop"
    /\ idx["ui"] > Len(snap)
    /\ processes' = [n \in Names |-> NoPid]
    /\ pc' = [pc EXCEPT !["ui"] = "closed"]
    /\ UNCHANGED <<profiles, conf, data, gui, redis_mon, reach_call, ops, status_map, conn_status, user_stop_flags, launching,
                   stop_event, osvars, clock, tname, idx, tp, timer, monvars, wvars,
                   snap, runner, sawInFlight>>

----------------------------------------------------------------------------
(* startMany: on_start_all, _start_groups and _auto_start_profiles *)

\* variant of KeyLess with the key of on_start_group, which leaves the group out:
\* "(int(p.get("order", 0) or 0), p.get("name", ""))"
KeyLessOrderName(p, q) ==
    \/ p.order < q.order
    \/ /\ p.order = q.order
       /\ StrLess(p.name, q.name)

\* the sort key "(p.get("group", ""), int(p.get("order", 0) or 0), p.get("name", ""))"
\* under Python's order on tuples
KeyLess(p, q) ==
    \/ StrLess(p.group, q.group)
    \/ /\ p.group = q.group
       /\ \/ p.order < q.order
          \/ /\ p.order = q.order
             /\ StrLess(p.name, q.name)

RECURSIVE InsertSorted(_, _)
\* p is put before the first element whose key is greater than its own
InsertSorted(sorted, p) ==
    IF sorted = <<>> THEN <<p>>
    ELSE IF KeyLess(p, Head(sorted)) THEN <<p>> \o sorted
         ELSE <<Head(sorted)>> \o InsertSorted(Tail(sorted), p)

RECURSIVE SortProfs(_)
\* "profs.sort(key=...)": list.sort is stable
SortProfs(ps) ==
    IF ps = <<>> THEN <<>>
    ELSE InsertSorted(SortProfs(SubSeq(ps, 1, Len(ps) - 1)), ps[Len(ps)])

InGset(p) == p.group \in w_gset

InOnGroups(p) == p.group \in Groups /\ group_modes[p.group] = "on"

IsAutoStart(p) == p.autoStart

\* the profiles a startMany worker selects: lines 618, 654 and 739-751
Selected(mode) ==
    IF mode = "all" THEN profiles
    ELSE IF mode = "groups" THEN SelectSeq(profiles, InGset)
    ELSE IF override THEN SelectSeq(profiles, InOnGroups)
    ELSE SelectSeq(profiles, IsAutoStart)

\* on_start_all, lines 615-645: the worker thread is created and started
on_start_all ==
    /\ ops < MaxUserOps
    /\ ops' = ops + 1
    /\ pc["ui"] = "idle"
    /\ pc["w1"] = "w_free"
    /\ pc' = [pc EXCEPT !["w1"] = "w_sort"]
    /\ w_mode' = "all"
    /\ UNCHANGED <<profiles, conf, data, gui, redis_mon, reach_call, registry, stop_event, osvars, clock, tname, idx, tp,
                   timer, monvars, w_gset, w_profs, initiated, settledAt, group_modes, override,
                   snap, runner, sawInFlight>>

\* _start_groups, lines 647-653 and 679: a non-empty list of groups, the worker
\* thread is created and started
start_groups(groups) ==
    /\ ~Closed
    /\ groups # {}
    /\ pc["w1"] = "w_free"
    /\ pc' = [pc EXCEPT !["w1"] = "w_sort"]
    /\ w_mode' = "groups"
    /\ w_gset' = groups
    /\ UNCHANGED <<profiles, conf, data, gui, redis_mon, reach_call, ops, registry, stop_event, osvars, clock, tname, idx, tp,
                   timer, monvars, w_profs, initiated, settledAt, group_modes, override, snap,
                   runner, sawInFlight>>

\* _auto_start_profiles, lines 735-736 and 780, run once by "self.after(200, ...)"
auto_start_profiles ==
    /\ pc["ui"] = "idle"
    /\ pc["w1"] = "w_free"
    /\ w_mode = ""
    /\ pc' = [pc EXCEPT !["w1"] = "w_sort"]
    /\ w_mode' = "auto"
    /\ UNCHANGED <<profiles, conf, data, gui, redis_mon, reach_call, ops, registry, stop_event, osvars, clock, tname, idx, tp,
                   timer, monvars, w_gset, w_profs, initiated, settledAt, group_modes, override,
                   snap, runner, sawInFlight>>

\* worker, lines 618-619 (654-655, 739-753): select and sort
WorkerSort ==
    /\ ~Closed
    /\ pc["w1"] = "w_sort"
    /\ w_profs' = SortProfs(Selected(w_mode))
    /\ initiated' = <<>>
    /\ settledAt' = 0
    /\ idx' = [idx EXCEPT !["w1"] = 1]
    /\ pc' = [pc EXCEPT !["w1"] = "w_loop"]
    /\ UNCHANGED <<profiles, conf, data, gui, redis_mon, reach_call, ops, registry, stop_event, osvars, clock, tname, tp, timer,
                   monvars, w_mode, w_gset, group_modes, override, snap, runner,
                   sawInFlight>>

\* worker, lines 620-624: the next profile of the list, and its _start_profile
\* call up to the first check
WorkerStart ==
    /\ ~Closed
    /\ pc["w1"] = "w_loop"
    /\ idx["w1"] <= Len(w_profs)
    /\ StartProfileEntry("w1", w_profs[idx["w1"]].name)
    /\ initiated' = Append(initiated, w_profs[idx["w1"]].name)
    /\ settledAt' = 0
    /\ UNCHANGED <<profiles, conf, data, gui, redis_mon, reach_call, ops, registry, stop_event, osvars, clock, monvars,
                   w_mode, w_gset, w_profs, group_modes, override, snap, runner>>

\* worker, line 643: the list is exhausted, the thread ends
WorkerDone ==
    /\ ~Closed
    /\ pc["w1"] = "w_loop"
    /\ idx["w1"] > Len(w_profs)
    /\ pc' = [pc EXCEPT !["w1"] = "w_free"]
    /\ idx' = [idx EXCEPT !["w1"] = 0]
    /\ w_profs' = <<>>
    /\ w_gset' = {}
    /\ initiated' = <<>>
    /\ settledAt' = 0
    /\ UNCHANGED <<profiles, conf, data, gui, redis_mon, reach_call, ops, registry, stop_event, osvars, clock, tname, tp, timer,
                   monvars, w_mode, group_modes, override, snap, runner, sawInFlight>>

\* variant of WorkerWait whose "for" loop is left when the profile it started
\* is "Stopped" once the wait is over
WorkerWaitStopsOnFailure ==
    /\ ~Closed
    /\ pc["w1"] = "w_wait"
    /\ \/ tname["w1"] \notin launching
       \/ stop_event
       \/ clock >= timer["w1"]
    /\ idx' = [idx EXCEPT !["w1"] = IF status_map[tname["w1"]] = "Stopped"
                                    THEN Len(w_profs) + 1 ELSE @ + 1]
    /\ pc' = [pc EXCEPT !["w1"] = "w_loop"]
    /\ timer' = [timer EXCEPT !["w1"] = 0]
    /\ tname' = [tname EXCEPT !["w1"] = ""]
    /\ settledAt' = 0
    /\ UNCHANGED <<profiles, conf, data, gui, redis_mon, reach_call, ops, registry, stop_event, osvars, clock, tp, monvars,
                   w_mode, w_gset, w_profs, initiated, group_modes, override, snap,
                   runner, sawInFlight>>

\* worker, lines 628-636: the wait for the name to leave _launching ends (or
\* shutdown, or the deadline); then the post-launch delay of a grouped profile
\* begins, "end = time.time() + delay", or the loop moves on
WorkerWait ==
    /\ ~Closed
    /\ pc["w1"] = "w_wait"
    /\ \/ tname["w1"] \notin launching
       \/ stop_event
       \/ clock >= timer["w1"]
    /\ IF ProfOf(tname["w1"]).group # "" /\ ProfOf(tname["w1"]).postLaunchDelay > 0
       THEN /\ timer' = [timer EXCEPT !["w1"] = clock + ProfOf(tname["w1"]).postLaunchDelay]
            /\ pc' = [pc EXCEPT !["w1"] = "w_delay"]
            /\ settledAt' = clock
            /\ UNCHANGED <<idx, tname>>
       ELSE /\ idx' = [idx EXCEPT !["w1"] = @ + 1]
            /\ pc' = [pc EXCEPT !["w1"] = "w_loop"]
            /\ timer' = [timer EXCEPT !["w1"] = 0]
            /\ tname' = [tname EXCEPT !["w1"] = ""]
            /\ settledAt' = 0
    /\ UNCHANGED <<profiles, conf, data, gui, redis_mon, reach_call, ops, registry, stop_event, osvars, clock, tp, monvars,
                   w_mode, w_gset, w_profs, initiated, group_modes, override, snap,
                   runner, sawInFlight>>

\* variant of WorkerDelay whose loop condition is never true ("time.time() > end"):
\* the delay ends at once
WorkerDelayNoWait ==
    /\ ~Closed
    /\ pc["w1"] = "w_delay"
    /\ idx' = [idx EXCEPT !["w1"] = @ + 1]
    /\ pc' = [pc EXCEPT !["w1"] = "w_loop"]
    /\ timer' = [timer EXCEPT !["w1"] = 0]
    /\ tname' = [tname EXCEPT !["w1"] = ""]
    /\ UNCHANGED <<profiles, conf, data, gui, redis_mon, reach_call, ops, registry, stop_event, osvars, clock, tp, monvars,
                   wvars, snap, runner, sawInFlight>>

\* worker, lines 637-638: the post-launch delay is over (or shutdown)
WorkerDelay ==
    /\ ~Closed
    /\ pc["w1"] = "w_delay"
    /\ clock >= timer["w1"] \/ stop_event
    /\ idx' = [idx EXCEPT !["w1"] = @ + 1]
    /\ pc' = [pc EXCEPT !["w1"] = "w_loop"]
    /\ timer' = [timer EXCEPT !["w1"] = 0]
    /\ tname' = [tname EXCEPT !["w1"] = ""]
    /\ UNCHANGED <<profiles, conf, data, gui, redis_mon, reach_call, ops, registry, stop_event, osvars, clock, tp, monvars,
                   wvars, snap, runner, sawInFlight>>

----------------------------------------------------------------------------
(* _proc_monitor: the crash monitor thread *)

\* variant of MonitorSleepUntil with one sleep of half a second instead of six
MonitorSleepHalfSecond(now) == now

\* lines 851-854: when the six sleeps of half a second that begin at "now" end
MonitorSleepUntil(now) == now + MonitorSleepSeconds

\* variant: the comparison of the cooldown test turned round
RestartDueInverted(now, last) == now - last < Cooldown

\* line 844: "if now - last < 3: continue"
RestartDue(now, last) == ~(now - last < Cooldown)

\* lines 826-829: the loop condition, "now = time.time()", the for loop begins
MonitorTop ==
    /\ ~Closed
    /\ pc["mon"] = "m_top"
    /\ IF stop_event
       THEN /\ pc' = [pc EXCEPT !["mon"] = "m_exit"]
            /\ UNCHANGED <<m_now, idx>>
       ELSE /\ pc' = [pc EXCEPT !["mon"] = "m_check"]
            /\ m_now' = clock
            /\ idx' = [idx EXCEPT !["mon"] = 1]
    /\ UNCHANGED <<profiles, conf, data, gui, redis_mon, reach_call, ops, registry, stop_event, osvars, clock, tname, tp, timer,
                   last_restart, monStarted, monGap, recon, wvars, snap, runner,
                   sawInFlight>>

\* lines 829-839: the skips on autoRestart, _launching, the user-stop flag and
\* a missing handle; "p = self.processes.get(name)"
MonitorCheck ==
    /\ ~Closed
    /\ pc["mon"] = "m_check"
    /\ idx["mon"] <= Len(profiles)
    /\ LET prof == profiles[idx["mon"]] IN
          IF \/ ~prof.autoRestart
             \/ prof.name \in launching
             \/ user_stop_flags[prof.name]
             \/ processes[prof.name] = NoPid
          THEN /\ idx' = [idx EXCEPT !["mon"] = @ + 1]
               /\ UNCHANGED <<pc, tname, tp>>
          ELSE /\ tname' = [tname EXCEPT !["mon"] = prof.name]
               /\ tp' = [tp EXCEPT !["mon"] = processes[prof.name]]
               /\ pc' = [pc EXCEPT !["mon"] = "m_poll"]
               /\ UNCHANGED idx
    /\ UNCHANGED <<profiles, conf, data, gui, redis_mon, reach_call, ops, registry, stop_event, osvars, clock, timer, monvars,
                   wvars, snap, runner, sawInFlight>>

\* lines 840-847: the skips on a live process and on the cooldown;
\* "self._last_restart[name] = now"
MonitorPoll ==
    /\ ~Closed
    /\ pc["mon"] = "m_poll"
    /\ IF IsLive(tp["mon"]) \/ ~RestartDue(m_now, last_restart[tname["mon"]])
       THEN /\ idx' = [idx EXCEPT !["mon"] = @ + 1]
            /\ pc' = [pc EXCEPT !["mon"] = "m_check"]
            /\ tname' = [tname EXCEPT !["mon"] = ""]
            /\ tp' = [tp EXCEPT !["mon"] = NoPid]
            /\ UNCHANGED last_restart
       ELSE /\ last_restart' = [last_restart EXCEPT ![tname["mon"]] = m_now]
            /\ pc' = [pc EXCEPT !["mon"] = "m_call"]
            /\ UNCHANGED <<idx, tname, tp>>
    /\ UNCHANGED <<profiles, conf, data, gui, redis_mon, reach_call, ops, registry, stop_event, osvars, clock, timer,
                   m_now, monStarted, monGap, recon, wvars, snap, runner, sawInFlight>>

\* line 848: "self._start_profile(prof)", up to its first check
MonitorCall ==
    /\ ~Closed
    /\ pc["mon"] = "m_call"
    /\ StartProfileEntry("mon", tname["mon"])
    /\ monStarted' = [monStarted EXCEPT ![tname["mon"]] = clock]
    /\ monGap' = [monGap EXCEPT ![tname["mon"]] =
                     IF monStarted[tname["mon"]] = 0 THEN NoGap
                     ELSE clock - monStarted[tname["mon"]]]
    /\ UNCHANGED <<profiles, conf, data, gui, redis_mon, reach_call, ops, registry, stop_event, osvars, clock, last_restart,
                   m_now, recon, wvars, snap, runner>>

\* lines 847-851: "self.status.set(...)" or "self._start_profile(prof)" raises
\* (a Tk call from the monitor thread, a thread that cannot be started); the
\* handler of line 849 is outside the for loop, the sleep begins
MonitorCallRaises ==
    /\ ~Closed
    /\ pc["mon"] = "m_call"
    /\ timer' = [timer EXCEPT !["mon"] = MonitorSleepUntil(clock)]
    /\ pc' = [pc EXCEPT !["mon"] = "m_sleep"]
    /\ tname' = [tname EXCEPT !["mon"] = ""]
    /\ tp' = [tp EXCEPT !["mon"] = NoPid]
    /\ UNCHANGED <<profiles, conf, data, gui, redis_mon, reach_call, ops, registry, stop_event, osvars, clock, idx,
                   monvars, wvars, snap, runner, sawInFlight>>

\* lines 829 and 851: the for loop is exhausted, the sleep begins
MonitorCycleEnd ==
    /\ ~Closed
    /\ pc["mon"] = "m_check"
    /\ idx["mon"] > Len(profiles)
    /\ timer' = [timer EXCEPT !["mon"] = MonitorSleepUntil(clock)]
    /\ pc' = [pc EXCEPT !["mon"] = "m_sleep"]
    /\ idx' = [idx EXCEPT !["mon"] = 0]
    /\ m_now' = 0
    /\ UNCHANGED <<profiles, conf, data, gui, redis_mon, reach_call, ops, registry, stop_event, osvars, clock, tname, tp,
                   last_restart, monStarted, monGap, recon, wvars, snap, runner,
                   sawInFlight>>

\* lines 851-854: six sleeps of half a second, cut short by the stop event
MonitorWake ==
    /\ ~Closed
    /\ pc["mon"] = "m_sleep"
    /\ clock >= timer["mon"] \/ stop_event
    /\ pc' = [pc EXCEPT !["mon"] = "m_top"]
    /\ timer' = [timer EXCEPT !["mon"] = 0]
    /\ UNCHANGED <<profiles, conf, data, gui, redis_mon, reach_call, ops, registry, stop_event, osvars, clock, tname, idx, tp,
                   monvars, wvars, snap, runner, sawInFlight>>

----------------------------------------------------------------------------
(* _redis_monitor: the reconciler thread of the groups in "redis" mode.  Every
   such group has a redisKey; hget and get are handled alike. *)

\* lines 952-955: ten sleeps of a fifth of a second, in seconds
ReconSleepSeconds == 2

\* "group_modes.items()": the groups in the order of the dictionary
GroupSeq == <<"g", "h">>

\* what "self._redis_client.hget(key, field)" / "get(redis_key)" can do: return
\* a value or raise
StoreReplies == {"0", "1", "raise"}

\* variant: only the first profile of the group
GroupProfsFirst(g) ==
    LET InGroup(p) == p.group = g
        ps == SelectSeq(profiles, InGroup)
    IN  [i \in 1..(IF ps = <<>> THEN 0 ELSE 1) |-> ps[i].name]

\* line 928: the names of the profiles of group g, in list order
GroupProfs(g) ==
    LET InGroup(p) == p.group = g
        ps == SelectSeq(profiles, InGroup)
    IN  [i \in 1..Len(ps) |-> ps[i].name]

\* lines 929-931: "is_running", some profile of the group has a live process
GroupRunning(g) ==
    \E i \in 1..Len(GroupProfs(g)) : IsLive(processes[GroupProfs(g)[i]])

\* variant: every value but "0" asks for the group to run
ShouldRunNotZero(value) == value # "0"

\* line 925: "should_run = (value == "1")"
ShouldRun(value) == value = "1"

\* lines 897-902: the loop condition and "if not self._redis_client: break";
\* the for loop over the groups begins
ReconTop ==
    /\ ~Closed
    /\ pc["red"] = "x_top"
    /\ IF stop_event \/ ~redis_mon.running \/ ~redis_mon.client
       THEN /\ pc' = [pc EXCEPT !["red"] = "x_exit"]
            /\ UNCHANGED recon
       ELSE /\ pc' = [pc EXCEPT !["red"] = "x_group"]
            /\ recon' = [FreeRecon EXCEPT !.gi = 1]
    /\ UNCHANGED <<profiles, conf, data, gui, redis_mon, reach_call, ops, registry, stop_event, osvars, clock, tname, idx, tp,
                   timer, last_restart, m_now, monStarted, monGap, wvars, snap,
                   runner, sawInFlight>>

\* variant of ReconLookup without the try blocks around the lookups: the
\* exception reaches the handler of line 947 and the rest of the cycle is lost
ReconLookupAbandons ==
    /\ ~Closed
    /\ pc["red"] = "x_group"
    /\ recon.gi <= Len(GroupSeq)
    /\ IF group_modes[GroupSeq[recon.gi]] # "redis"
       THEN /\ recon' = [recon EXCEPT !.gi = @ + 1]
            /\ UNCHANGED pc
       ELSE \E reply \in StoreReplies :
              IF reply = "raise"
              THEN /\ recon' = [recon EXCEPT !.gi = Len(GroupSeq) + 1]
                   /\ UNCHANGED pc
              ELSE /\ recon' = [recon EXCEPT !.value = reply, !.err = FALSE]
                   /\ pc' = [pc EXCEPT !["red"] = "x_decide"]
    /\ UNCHANGED <<profiles, conf, data, gui, redis_mon, reach_call, ops, registry, stop_event, osvars, clock, tname, idx, tp,
                   timer, last_restart, m_now, monStarted, monGap, wvars, snap,
                   runner, sawInFlight>>

\* variant of ReconLookup in which a lookup that raises ends the loop
ReconLookupBreaks ==
    /\ ~Closed
    /\ pc["red"] = "x_group"
    /\ recon.gi <= Len(GroupSeq)
    /\ IF group_modes[GroupSeq[recon.gi]] # "redis"
       THEN /\ recon' = [recon EXCEPT !.gi = @ + 1]
            /\ UNCHANGED pc
       ELSE \E reply \in StoreReplies :
               /\ recon' = [recon EXCEPT !.value = IF reply = "raise" THEN "" ELSE reply,
                                         !.err = (reply = "raise")]
               /\ pc' = [pc EXCEPT !["red"] = IF reply = "raise" THEN "x_exit"
                                              ELSE "x_decide"]
    /\ UNCHANGED <<profiles, conf, data, gui, redis_mon, reach_call, ops, registry, stop_event,
                   osvars, clock, tname, idx, tp, timer, last_restart, m_now, monStarted,
                   monGap, wvars, snap, runner, sawInFlight>>

\* lines 903-925: the next group; one that is not in "redis" mode is skipped,
\* for the others the store is asked, and an exception gives "value = None"
ReconLookup ==
    /\ ~Closed
    /\ pc["red"] = "x_group"
    /\ recon.gi <= Len(GroupSeq)
    /\ IF group_modes[GroupSeq[recon.gi]] # "redis"
       THEN /\ recon' = [recon EXCEPT !.gi = @ + 1]
            /\ UNCHANGED pc
       ELSE /\ \E reply \in StoreReplies :
                  recon' = [recon EXCEPT !.value = IF reply = "raise" THEN "" ELSE reply,
                                         !.err = (reply = "raise")]
            /\ pc' = [pc EXCEPT !["red"] = "x_decide"]
    /\ UNCHANGED <<profiles, conf, data, gui, redis_mon, reach_call, ops, registry, stop_event, osvars, clock, tname, idx, tp,
                   timer, last_restart, m_now, monStarted, monGap, wvars, snap,
                   runner, sawInFlight>>

\* lines 929-930: what the polls of the handles of group g find
PollGroup(g) ==
    [n \in Names |->
        IF \E i \in 1..Len(GroupProfs(g)) : GroupProfs(g)[i] = n
        THEN IF processes[n] # NoPid /\ processes[n] \notin alive
             THEN processes[n] ELSE NoPid
        ELSE recon.sawDead[n]]

\* the reconciler moves on to the next group of the cycle
ReconNextGroup(decision, running) ==
    /\ recon' = [recon EXCEPT !.gi = @ + 1, !.value = "", !.err = FALSE,
                              !.last = decision, !.lastRunning = running,
                              !.sawDead = PollGroup(GroupSeq[recon.gi])]
    /\ UNCHANGED idx

\* lines 927-940: the state of the group is observed and compared with the
\* desired one; the group is started (_start_groups, lines 647-653 and 679: a
\* worker thread is created), or the loop over its profiles that stops them
\* begins, or nothing is done
ReconDecide ==
    /\ ~Closed
    /\ pc["red"] = "x_decide"
    /\ LET g == GroupSeq[recon.gi]
           should_run == ShouldRun(recon.value)
           is_running == GroupRunning(g)
       IN  IF should_run /\ ~is_running
           THEN /\ pc["w1"] = "w_free"
                /\ pc' = [pc EXCEPT !["w1"] = "w_sort", !["red"] = "x_group"]
                /\ w_mode' = "groups"
                /\ w_gset' = {g}
                /\ ReconNextGroup("start", is_running)
           ELSE IF ~should_run /\ is_running
           THEN /\ pc' = [pc EXCEPT !["red"] = "x_stop"]
                /\ recon' = [recon EXCEPT !.profs = GroupProfs(g),
                                          !.sawDead = PollGroup(g),
                                          !.errStop = @ \/ recon.err,
                                          !.last = "stop", !.lastRunning = is_running]
                /\ idx' = [idx EXCEPT !["red"] = 1]
                /\ UNCHANGED <<w_mode, w_gset>>
           ELSE /\ pc' = [pc EXCEPT !["red"] = "x_group"]
                /\ ReconNextGroup("none", is_running)
                /\ UNCHANGED <<w_mode, w_gset>>
    /\ UNCHANGED <<profiles, conf, data, gui, redis_mon, reach_call, ops, registry, stop_event, osvars, clock, tname, tp, timer,
                   last_restart, m_now, monStarted, monGap, w_profs, initiated,
                   settledAt, group_modes, override, snap, runner, sawInFlight>>

\* lines 941-943 and 582: the next profile of "profs", and the first line of
\* its _stop_profile: "self._user_stop_flags[name] = True"
ReconStopNext ==
    /\ ~Closed
    /\ pc["red"] = "x_stop"
    /\ idx["red"] <= Len(recon.profs)
    /\ user_stop_flags' = [user_stop_flags EXCEPT ![recon.profs[idx["red"]]] = TRUE]
    /\ tname' = [tname EXCEPT !["red"] = recon.profs[idx["red"]]]
    /\ idx' = [idx EXCEPT !["red"] = @ + 1]
    /\ pc' = [pc EXCEPT !["red"] = "st_term"]
    /\ recon' = [recon EXCEPT !.stopped = @ \cup {recon.profs[idx["red"]]}]
    /\ UNCHANGED <<profiles, conf, data, gui, redis_mon, reach_call, ops, processes, status_map, conn_status, launching,
                   stop_event, osvars, clock, tp, timer, last_restart, m_now,
                   monStarted, monGap, wvars, snap, runner, sawInFlight>>

\* line 941: "profs" is exhausted, the loop over the groups goes on
ReconStopDone ==
    /\ ~Closed
    /\ pc["red"] = "x_stop"
    /\ idx["red"] > Len(recon.profs)
    /\ pc' = [pc EXCEPT !["red"] = "x_group"]
    /\ recon' = [recon EXCEPT !.gi = @ + 1, !.value = "", !.err = FALSE, !.profs = <<>>,
                              !.stopped = {}]
    /\ idx' = [idx EXCEPT !["red"] = 0]
    /\ UNCHANGED <<profiles, conf, data, gui, redis_mon, reach_call, ops, registry, stop_event, osvars, clock, tname, tp, timer,
                   last_restart, m_now, monStarted, monGap, wvars, snap, runner,
                   sawInFlight>>

\* lines 903 and 951-952: the loop over the groups is exhausted, the sleep begins
ReconCycleEnd ==
    /\ ~Closed
    /\ pc["red"] = "x_group"
    /\ recon.gi > Len(GroupSeq)
    /\ timer' = [timer EXCEPT !["red"] = clock + ReconSleepSeconds]
    /\ pc' = [pc EXCEPT !["red"] = "x_sleep"]
    /\ recon' = FreeRecon
    /\ redis_mon' = [redis_mon EXCEPT !.cycled = TRUE]
    /\ UNCHANGED <<profiles, conf, data, gui, reach_call, ops, registry, stop_event, osvars, clock, tname, idx, tp,
                   last_restart, m_now, monStarted, monGap, wvars, snap, runner,
                   sawInFlight>>

\* lines 952-955: the sleep is over, or cut short by the stop event
ReconWake ==
    /\ ~Closed
    /\ pc["red"] = "x_sleep"
    /\ clock >= timer["red"] \/ stop_event \/ ~redis_mon.running
    /\ pc' = [pc EXCEPT !["red"] = "x_top"]
    /\ timer' = [timer EXCEPT !["red"] = 0]
    /\ UNCHANGED <<profiles, conf, data, gui, redis_mon, reach_call, ops, registry, stop_event, osvars, clock, tname, idx, tp,
                   monvars, wvars, snap, runner, sawInFlight>>

\* _start_redis_monitor, lines 856-863: the running flag is cleared and the
\* caller sleeps 0.3 s "to let the old thread exit"
RestartStop ==
    /\ ops < MaxUserOps
    /\ ops' = ops + 1
    /\ pc["ui"] = "idle"
    /\ pc' = [pc EXCEPT !["ui"] = "rs_sleep"]
    /\ redis_mon' = [redis_mon EXCEPT !.running = FALSE, !.restarted = TRUE]
    /\ UNCHANGED <<profiles, conf, data, gui, reach_call, registry, stop_event, osvars, clock,
                   tname, idx, tp, timer, last_restart, m_now, monStarted, monGap, recon,
                   wvars, snap, runner, sawInFlight>>

\* _start_redis_monitor, lines 865-893: with a group in "redis" mode a client is
\* created and pinged; when the ping succeeds the flag is set and a new loop
\* thread started, when it raises the client is dropped.  The model follows
\* one loop thread: the new one when the old one has left its loop.
RestartStart ==
    /\ pc["ui"] = "rs_sleep"
    /\ IF \A g \in Groups : group_modes[g] # "redis"
       THEN /\ pc' = [pc EXCEPT !["ui"] = "idle"]
            /\ UNCHANGED <<redis_mon, recon, timer>>
       ELSE \E ping_ok \in BOOLEAN :
               IF ~ping_ok
               THEN /\ redis_mon' = [redis_mon EXCEPT !.client = FALSE]
                    /\ pc' = [pc EXCEPT !["ui"] = "idle"]
                    /\ UNCHANGED <<recon, timer>>
               ELSE IF pc["red"] \in {"x_exit", "x_off"}
               THEN /\ redis_mon' = [running |-> TRUE, client |-> TRUE, cycled |-> FALSE,
                                      stale |-> FALSE, restarted |-> FALSE]
                    /\ pc' = [pc EXCEPT !["ui"] = "idle", !["red"] = "x_top"]
                    /\ recon' = FreeRecon
                    /\ timer' = [timer EXCEPT !["red"] = 0]
               ELSE /\ redis_mon' = [redis_mon EXCEPT !.running = TRUE, !.client = TRUE,
                                                      !.stale = TRUE]
                    /\ pc' = [pc EXCEPT !["ui"] = "idle"]
                    /\ UNCHANGED <<recon, timer>>
    /\ UNCHANGED <<profiles, conf, data, gui, reach_call, ops, registry, stop_event, osvars,
                   clock, tname, idx, tp, last_restart, m_now, monStarted, monGap,
                   wvars, snap, runner, sawInFlight>>

----------------------------------------------------------------------------
(* gui_launcher.py: AppGUI, its auto-start workers and save_config, with
   launcher.wait_for_connectivity as the workers execute it *)

\* the variables of the profile engines, which AppGUI does not touch
engine == <<profiles, conf, data, redis_mon, reach_call, ops, registry, stop_event, osvars, tname,
            idx, tp, timer, monvars, wvars, snap, runner, sawInFlight>>

\* launcher.py line 320: "if total_timeout and (time.time() - start) >= total_timeout"
WaiterTimedOut(total_timeout, start, now) ==
    total_timeout # 0 /\ now - start >= total_timeout

FreeGuiSlot ==
    IF \E i \in GuiWorkers : gui.w[i].pc = "free"
    THEN CHOOSE i \in GuiWorkers :
             /\ gui.w[i].pc = "free"
             /\ \A j \in GuiWorkers : gui.w[j].pc = "free" => i <= j
    ELSE 0

\* _auto_start_worker, lines 135-136, and launcher.py lines 305-307: the target
\* is resolved, "cancel_event=self._cancel_event" is evaluated, "start = time.time()"
AutoStartBegin(i) ==
    /\ gui.w[i].pc = "a_resolve"
    /\ gui' = [gui EXCEPT !.w[i] = [@ EXCEPT !.pc = "a_top", !.ev = gui.cancel,
                                             !.start = clock]]
    /\ UNCHANGED <<engine, clock, pc>>

\* launcher.py lines 310-315 and gui_launcher.py lines 137-139: the top of the
\* waiter's loop; a set cancel event makes it return False and the worker ends
WaiterTop(i) ==
    /\ gui.w[i].pc = "a_top"
    /\ IF gui.w[i].ev \in gui.set_events
       THEN gui' = [gui EXCEPT !.w[i] = FreeGuiWorker]
       ELSE gui' = [gui EXCEPT !.w[i].pc = "a_probe"]
    /\ UNCHANGED <<engine, clock, pc>>

\* launcher.py lines 316-323: "_can_reach(ping_target)" returns; True ends the
\* wait with True, otherwise the timeout test and the sleep
WaiterProbe(i) ==
    /\ gui.w[i].pc = "a_probe"
    /\ \E reach \in BOOLEAN :
          LET cut == gui.w[i].cut \/ gui.w[i].ev \in gui.set_events IN
          IF reach
          THEN gui' = [gui EXCEPT !.w[i] = [@ EXCEPT !.pc = "a_launch", !.probed = TRUE,
                                                     !.cut = cut]]
          ELSE IF WaiterTimedOut(PING_TOTAL_TIMEOUT, gui.w[i].start, clock)
          THEN gui' = [gui EXCEPT !.w[i] = FreeGuiWorker]
          ELSE gui' = [gui EXCEPT !.w[i] = [@ EXCEPT !.pc = "a_sleep", !.probed = TRUE,
                                                     !.cut = cut,
                                                     !.wake = clock + PING_RETRY_INTERVAL]]
    /\ UNCHANGED <<engine, clock, pc>>

\* launcher.py line 323: "time.sleep(interval)" is over
WaiterSleep(i) ==
    /\ gui.w[i].pc = "a_sleep"
    /\ clock >= gui.w[i].wake
    /\ gui' = [gui EXCEPT !.w[i].pc = "a_top"]
    /\ UNCHANGED <<engine, clock, pc>>

\* _auto_start_worker, lines 140-144: the control application is launched and
\* the browser opened; the worker ends
AutoStartLaunch(i) ==
    /\ gui.w[i].pc = "a_launch"
    /\ gui' = [gui EXCEPT !.ctrl = TRUE, !.launches = @ + 1, !.w[i] = FreeGuiWorker]
    /\ UNCHANGED <<engine, clock, pc>>

\* save_config, lines 242-257: the configuration is written, the cancel event
\* is set and replaced by a new one, and the "saved" message box is shown
SaveCancel ==
    /\ pc["ui"] = "idle"
    /\ gui.saves < MaxSaves
    /\ gui' = [gui EXCEPT !.set_events = @ \cup {gui.cancel}, !.cancel = @ + 1,
                          !.saves = @ + 1]
    /\ pc' = [pc EXCEPT !["ui"] = "sv_info"]
    /\ UNCHANGED <<engine, clock>>

\* save_config, lines 258-259, and _start_on_launch, lines 128-131: when the
\* control process is not running a new worker thread is created
SaveRestart ==
    /\ pc["ui"] = "sv_info"
    /\ IF gui.ctrl
       THEN UNCHANGED gui
       ELSE /\ FreeGuiSlot # 0
            /\ gui' = [gui EXCEPT !.w[FreeGuiSlot] =
                           [FreeGuiWorker EXCEPT !.pc = "a_resolve"]]
    /\ pc' = [pc EXCEPT !["ui"] = "idle"]
    /\ UNCHANGED <<engine, clock>>

GuiSteps ==
    \/ \E i \in GuiWorkers : AutoStartBegin(i)
    \/ \E i \in GuiWorkers : WaiterTop(i)
    \/ \E i \in GuiWorkers : WaiterProbe(i)
    \/ \E i \in GuiWorkers : WaiterSleep(i)
    \/ \E i \in GuiWorkers : AutoStartLaunch(i)
    \/ SaveCancel
    \/ SaveRestart

----------------------------------------------------------------------------
(* The engine *)

\* _start_profile on the caller's side
StartSteps ==
    \/ \E t \in Threads : StartProfileCheckLaunching(t)
    \/ \E t \in Threads : StartProfileAdd(t)

\* _stop_profile after its first line
StopSteps ==
    \/ \E t \in Threads : StopTerminate(t)
    \/ \E t \in Threads : StopPop(t)
    \/ \E t \in Threads : StopStatus(t)

\* a runner thread of a profile without connectivity gate
SpawnSteps ==
    \/ \E k \in RunnerKeys : RunnerBegin(k)
    \/ \E k \in RunnerKeys : RunnerSpawn(k)
    \/ \E k \in RunnerKeys : RunnerSpawnFails(k)
    \/ \E k \in RunnerKeys : RunnerStarted(k)

\* the connectivity wait of a runner thread
WaitSteps ==
    \/ \E k \in RunnerKeys : RunnerWaitEnter(k)
    \/ \E k \in RunnerKeys : RunnerProbe(k)
    \/ \E k \in RunnerKeys : RunnerSleep(k)
    \/ \E k \in RunnerKeys : RunnerWaitDone(k)

UserSteps ==
    \/ \E n \in Names : on_start_selected(n)
    \/ \E n \in Names : on_stop_selected(n)

StoreSteps ==
    \/ \E r \in EditorResults : on_add(r)
    \/ \E n \in Names, r \in EditorResults : on_edit(n, r)
    \/ \E n \in Names : on_delete(n)

CloseSteps ==
    \/ CloseSignal
    \/ CloseSnapshot
    \/ CloseTerminate
    \/ CloseFinish

WorkerSteps ==
    \/ WorkerSort
    \/ WorkerStart
    \/ WorkerDone
    \/ WorkerWait

ReconSteps ==
    \/ ReconTop
    \/ ReconLookup
    \/ ReconDecide
    \/ ReconStopNext
    \/ ReconStopDone
    \/ ReconCycleEnd
    \/ ReconWake

MonitorSteps ==
    \/ MonitorTop
    \/ MonitorCheck
    \/ MonitorPoll
    \/ MonitorCall
    \/ MonitorCycleEnd
    \/ MonitorWake

Next ==
    \/ UserSteps
    \/ StartSteps
    \/ StopSteps
    \/ SpawnSteps
    \/ WaitSteps
    \/ CloseSteps
    \/ on_start_all
    \/ WorkerSteps
    \/ MonitorSteps
    \/ \E p \in Pids : ProcessExits(p)
    \/ \E n \in Names : ConnMonitor(n)
    \/ Tick

\* the whole engine
Spec == Init /\ [][Next]_vars

\* Start, stop, "Start All" and shutdown of ungated profiles without
\* autoRestart: the crash monitor and the clock have nothing to act on.
InitStart == \E ps \in StartConfigs : InitWith(ps, NoGroupModes, FALSE)

NextStart ==
    \/ UserSteps
    \/ StartSteps
    \/ StopSteps
    \/ SpawnSteps
    \/ CloseSteps
    \/ on_start_all
    \/ WorkerSteps
    \/ \E p \in Pids : ProcessExits(p)

SpecStart == InitStart /\ [][NextStart]_vars

\* An autoRestart profile under the crash monitor, with user start and stop.
InitMonitor == \E ps \in MonitorConfigs : InitWith(ps, NoGroupModes, FALSE)

NextMonitor ==
    \/ UserSteps
    \/ StartSteps
    \/ StopSteps
    \/ SpawnSteps
    \/ MonitorSteps
    \/ \E p \in Pids : ProcessExits(p)
    \/ Tick

SpecMonitor == InitMonitor /\ [][NextMonitor]_vars

\* Two autoRestart profiles under the crash monitor; the restart of a profile
\* can raise in the monitor thread.
InitFault == \E ps \in FaultConfigs : InitWith(ps, NoGroupModes, FALSE)

NextFault ==
    \/ \E n \in Names : on_start_selected(n)
    \/ StartSteps
    \/ SpawnSteps
    \/ MonitorSteps
    \/ MonitorCallRaises
    \/ \E p \in Pids : ProcessExits(p)
    \/ Tick

SpecFault == InitFault /\ [][NextFault]_vars

\* the user starts a profile that has not been started yet
UserFirstStart ==
    \E n \in Names :
        /\ processes[n] = NoPid
        /\ n \notin launching
        /\ status_map[n] = "Stopped"
        /\ on_start_selected(n)

\* a second passes once no thread has a step to take: the steps of the threads
\* take no time on the scale of the clock
TickQuiet ==
    /\ ~ENABLED (MonitorSteps \/ StartSteps \/ SpawnSteps)
    /\ TickTo(MaxLongTime)

\* An autoRestart profile, started once by the user, under the crash monitor:
\* its processes exit at any time, a spawn can fail; no thread is starved.
NextRestart ==
    \/ UserFirstStart
    \/ StartSteps
    \/ SpawnSteps
    \/ MonitorSteps
    \/ \E p \in Pids : ProcessExits(p)
    \/ TickQuiet

SpecRestart ==
    /\ InitMonitor
    /\ [][NextRestart]_vars
    /\ WF_vars(MonitorSteps)
    /\ WF_vars(StartSteps)
    /\ WF_vars(SpawnSteps)
    /\ WF_vars(TickQuiet)

\* Gated and ungated starts, with user stop and shutdown.
InitWait == \E ps \in WaitConfigs : InitWith(ps, NoGroupModes, FALSE)

NextWait ==
    \/ UserSteps
    \/ StartSteps
    \/ StopSteps
    \/ SpawnSteps
    \/ WaitSteps
    \/ CloseSteps
    \/ \E p \in Pids : ProcessExits(p)
    \/ Tick

SpecWait == InitWait /\ [][NextWait]_vars

\* the user starts a profile they have not stopped since its last start began
UserStartUnstopped ==
    \E n \in Names : ~user_stop_flags[n] /\ on_start_selected(n)

\* Starts and stops by the user alone, gated and ungated; once the user has
\* stopped a profile they do not start it again.
NextStopRace ==
    \/ UserStartUnstopped
    \/ \E n \in Names : on_stop_selected(n)
    \/ StartSteps
    \/ StopSteps
    \/ SpawnSteps
    \/ WaitSteps
    \/ \E p \in Pids : ProcessExits(p)
    \/ Tick

SpecStopRace == InitWait /\ [][NextStopRace]_vars


\* The three startMany call sites over every profile list of SortConfigs; group
\* g is "on", group h is "off", with and without the group override.
InitSort ==
    \E ps \in SortConfigs, ov \in BOOLEAN :
        InitWith(ps, [g \in Groups |-> IF g = "g" THEN "on" ELSE "off"], ov)

NextSort ==
    \/ on_start_all
    \/ \E g \in Groups : start_groups({g})
    \/ auto_start_profiles
    \/ WorkerSteps
    \/ StartSteps
    \/ SpawnSteps

SpecSort == InitSort /\ [][NextSort]_vars

\* The profile store under add, edit and delete, with profiles started by the
\* user and their processes running.
InitStore == \E ps \in StartConfigs : InitWith(ps, NoGroupModes, FALSE)

NextStore ==
    \/ StoreSteps
    \/ \E n \in Names : on_start_selected(n)
    \/ StartSteps
    \/ SpawnSteps
    \/ \E p \in Pids : ProcessExits(p)

SpecStore == InitStore /\ [][NextStore]_vars

\* A file is loaded at startup and saved.
InitConf ==
    \E doc \in ConfDocs :
        /\ conf = doc
        /\ profiles = load_profiles(doc).profiles
        /\ data = WithDefaults(load_profiles(doc).top)
        /\ reach_call = NoReach
        /\ InitRuntime(NoGroupModes, FALSE)

NextConf == on_save

SpecConf == InitConf /\ [][NextConf]_vars

\* Two groups in "redis" mode under the reconciler, the store answering as it
\* likes, processes exiting at any time.
InitRecon ==
    \E ps \in ReconConfigs : InitWith(ps, [g \in Groups |-> "redis"], FALSE)

NextRecon ==
    \/ ReconSteps
    \/ WorkerSteps
    \/ StartSteps
    \/ StopSteps
    \/ SpawnSteps
    \/ \E p \in Pids : ProcessExits(p)
    \/ Tick

SpecRecon == InitRecon /\ [][NextRecon]_vars

\* the time at which the store stops answering "1", and the last value of the
\* clock of the scenario
SwitchOff == Epoch + 1
OffHorizon == SwitchOff + MaxTime

\* one profile in group g
OffConfigs == { << Profile("a", "g", 1, "", 0, FALSE, FALSE) >> }

InitOff ==
    \E ps \in OffConfigs : InitWith(ps, [g \in Groups |-> "redis"], FALSE)

\* the user starts a profile before the store has switched
UserStartEarly == clock < SwitchOff /\ \E n \in Names : on_start_selected(n)

\* a lookup in a store that from SwitchOff on does not answer "1"
ReconLookupSwitched == ReconLookup /\ (clock >= SwitchOff => recon'.value # "1")

ReconStepsSwitched ==
    \/ ReconTop
    \/ ReconLookupSwitched
    \/ ReconDecide
    \/ ReconStopNext
    \/ ReconStopDone
    \/ ReconCycleEnd
    \/ ReconWake

\* a second passes when no thread has a step to take
TickQuietOff ==
    /\ ~ENABLED (ReconStepsSwitched \/ WorkerSteps \/ StartSteps \/ StopSteps \/ SpawnSteps)
    /\ TickTo(OffHorizon)

\* The reconciler over a store that answers "1" until SwitchOff and never
\* afterwards; the user starts profiles before SwitchOff only; no thread is
\* starved.
NextOff ==
    \/ UserStartEarly
    \/ ReconStepsSwitched
    \/ WorkerSteps
    \/ StartSteps
    \/ StopSteps
    \/ SpawnSteps
    \/ \E p \in Pids : ProcessExits(p)
    \/ TickQuietOff

SpecOff ==
    /\ InitOff
    /\ [][NextOff]_vars
    /\ WF_vars(ReconStepsSwitched)
    /\ WF_vars(WorkerSteps)
    /\ WF_vars(StartSteps)
    /\ WF_vars(StopSteps)
    /\ WF_vars(SpawnSteps)
    /\ WF_vars(TickQuietOff)

\* startMany over two profiles, the first of them gated or not: its wait can
\* time out and every spawn can fail; shutdown is not signalled.
InitMany == \E ps \in ManyConfigs : InitWith(ps, NoGroupModes, FALSE)

NextMany ==
    \/ on_start_all
    \/ \E g \in Groups : start_groups({g})
    \/ WorkerSteps
    \/ StartSteps
    \/ SpawnSteps
    \/ WaitSteps
    \/ \E p \in Pids : ProcessExits(p)
    \/ Tick

SpecMany == InitMany /\ [][NextMany]_vars

\* the user starts a profile while the clock leaves room for its longest wait
UserStartInTime == clock <= MaxTime /\ \E n \in Names : on_start_selected(n)

\* a second passes when no thread of the engine has a step to take
TickQuietSettle ==
    /\ ~ENABLED (StartSteps \/ StopSteps \/ SpawnSteps \/ WaitSteps)
    /\ TickTo(MaxLongTime)

\* Starts and stops by the user, the profile gated or not, its target reachable
\* or not at each probe; no thread is starved.
NextSettle ==
    \/ UserStartInTime
    \/ \E n \in Names : on_stop_selected(n)
    \/ StartSteps
    \/ StopSteps
    \/ SpawnSteps
    \/ WaitSteps
    \/ \E p \in Pids : ProcessExits(p)
    \/ TickQuietSettle

SpecSettle ==
    /\ InitWait
    /\ [][NextSettle]_vars
    /\ WF_vars(StartSteps)
    /\ WF_vars(StopSteps)
    /\ WF_vars(SpawnSteps)
    /\ WF_vars(WaitSteps)
    /\ WF_vars(TickQuietSettle)

\* The reconciler while the user restarts the monitoring.
NextRemon ==
    \/ ReconSteps
    \/ RestartStop
    \/ RestartStart
    \/ WorkerSteps
    \/ StartSteps
    \/ StopSteps
    \/ SpawnSteps
    \/ \E p \in Pids : ProcessExits(p)
    \/ Tick

SpecRemon == InitOff /\ [][NextRemon]_vars

\* a lookup in a store the connection to which is lost: it raises
ReconLookupLost ==
    ReconLookup /\ (group_modes[GroupSeq[recon.gi]] = "redis" => recon'.err)

\* The reconciler with the connection to the store lost from the start; the
\* user starts the profile, restarts the monitoring, closes the window.
NextLost ==
    \/ ReconTop
    \/ ReconLookupLost
    \/ ReconDecide
    \/ ReconStopNext
    \/ ReconStopDone
    \/ ReconCycleEnd
    \/ ReconWake
    \/ \E n \in Names : on_start_selected(n)
    \/ RestartStop
    \/ RestartStart
    \/ StartSteps
    \/ StopSteps
    \/ SpawnSteps
    \/ CloseSteps
    \/ \E p \in Pids : ProcessExits(p)
    \/ Tick

SpecLost == InitOff /\ [][NextLost]_vars

\* can_reach on every target of up to MaxTargetLen pieces, over every network.
InitReach ==
    \E pieces \in UNION {SeqsOf(TargetPieces, n) : n \in 0..MaxTargetLen},
       net \in Networks :
        /\ reach_call = [NoReach EXCEPT !.target = Flatten(pieces), !.net = net]
        /\ conf = save_profiles(<<>>, {})
        /\ profiles = <<>>
        /\ data = WithDefaults({})
        /\ InitRuntime(NoGroupModes, FALSE)

NextReach == can_reach_call

SpecReach == InitReach /\ [][NextReach]_vars

\* AppGUI from its construction on: the auto-start workers, the target
\* reachable or not at each probe, and the user saving the configuration.
NextGui ==
    \/ GuiSteps
    \/ Tick

SpecGui == InitStart /\ [][NextGui]_vars

\* startMany over two profiles and the window being closed at any moment of it.
NextShutdown ==
    \/ on_start_all
    \/ WorkerSteps
    \/ StartSteps
    \/ SpawnSteps
    \/ WaitSteps
    \/ CloseSteps
    \/ Tick

SpecShutdown == InitMany /\ [][NextShutdown]_vars

\* startMany over two profiles with post-launch delays, shutdown not being
\* signalled; the clock runs past the longest wait of the worker.
InitDelay == \E ps \in DelayConfigs : InitWith(ps, NoGroupModes, FALSE)

NextDelay ==
    \/ on_start_all
    \/ \E g \in Groups : start_groups({g})
    \/ WorkerSteps
    \/ WorkerDelay
    \/ StartSteps
    \/ SpawnSteps
    \/ \E p \in Pids : ProcessExits(p)
    \/ TickTo(MaxLongTime)

SpecDelay == InitDelay /\ [][NextDelay]_vars

----------------------------------------------------------------------------
(* Properties *)

\* C1: for every profile name, at most one process spawned for that name is
\* alive, whatever the interleaving of the _start_profile calls for it.
NoDoubleSpawn ==
    \A n \in Names : Cardinality({p \in alive : owner[p] = n}) <= 1

\* C2: for every name at most one runner (the thread that waits for
\* connectivity and spawns) is in progress at any time.
OneRunnerPerName ==
    \A n \in Names : Cardinality({k \in Slots : runner[<<n, k>>].pc # "free"}) <= 1

\* C3: a _start_profile call that began while its name was in _launching is a
\* no-op: the step by which it leaves its checks changes neither the registry
\* (handle, status, connState, userStopped, inFlight) nor the processes, and
\* begins no runner.  (A call that finds a live handle returns in its first
\* step, StartProfileEntry, which changes none of these.)
StartWhileInFlightIsNoOp ==
    [][\A t \in Threads :
          (sawInFlight[t] /\ pc[t] \in {"sp_launching", "sp_add"} /\ pc'[t] # pc[t])
              => UNCHANGED <<registry, osvars, runner>>]_vars

\* C4: whenever the crash monitor invokes _start_profile for a name, the
\* user-stop flag of that name is not set, also when the stop came while the
\* monitor's cycle was in progress.
MonitorSkipsUserStopped ==
    [][(pc["mon"] = "m_call" /\ pc'["mon"] # "m_call")
          => ~user_stop_flags[tname["mon"]]]_vars

\* C5: any two consecutive _start_profile calls the crash monitor makes for one
\* name are at least 3 seconds apart.
MonitorStartsSpaced ==
    \A n \in Names : monGap[n] = NoGap \/ monGap[n] >= 3

\* C5, the case: the monitor has restarted a name twice.
MonitorStartedTwice ==
    \E n \in Names : monGap[n] # NoGap /\ monStarted[n] >= Epoch + 3

\* C6: a runner of a profile with waitTimeout 0 has made no reachability probe
\* at any point up to and including its spawn.
NoProbeWithoutTimeout ==
    \A k \in RunnerKeys :
        (runner[k].pc # "free" /\ ProfOf(k[1]).waitTimeout = 0) => ~runner[k].probed

\* C6, the case: a profile with a waitTarget and waitTimeout 0 has been
\* spawned, and its runner never probed.
SpawnedWithoutProbe ==
    \E k \in RunnerKeys :
        /\ runner[k].pc = "r_started"
        /\ ProfOf(k[1]).waitTarget # ""
        /\ ProfOf(k[1]).waitTimeout = 0
        /\ ~runner[k].probed
        /\ processes[k[1]] \in alive

\* C7: when the connectivity wait of a runner has returned false, the runner's
\* next step ends the start with connState Offline, status Stopped and the name
\* out of _launching, spawns nothing and records no handle.
WaitFailureEndsStopped ==
    [][\A k \in RunnerKeys :
          (runner[k].pc = "r_waitdone" /\ ~runner[k].ok /\ runner'[k] # runner[k])
              => /\ conn_status'[k[1]] = "Offline"
                 /\ status_map'[k[1]] = "Stopped"
                 /\ k[1] \notin launching'
                 /\ runner'[k].pc = "free"
                 /\ UNCHANGED <<processes, alive, owner>>]_vars

\* C7, the case: a gated start has ended on a failed wait that probed the
\* target, and no process exists.
WaitFailed ==
    \E n \in ProfNames(profiles) :
        /\ ProfOf(n).waitTarget # ""
        /\ conn_status[n] = "Offline"
        /\ status_map[n] = "Stopped"
        /\ n \notin launching
        /\ processes[n] = NoPid
        /\ alive = {}

\* C8: a runner that was inside its connectivity wait when the stop event was
\* set is still waiting or its wait has returned false: it never goes on to
\* spawn.
ShutdownCancelsWait ==
    \A k \in RunnerKeys :
        runner[k].shut =>
            \/ runner[k].pc \in {"r_probe", "r_sleep"}
            \/ runner[k].pc = "r_waitdone" /\ ~runner[k].ok

\* C9: once _on_close has completed, no spawned process is alive.
NoProcessAfterClose == Closed => alive = {}

\* the (group, order, name) key as one number: groups before orders before names
KeyNum(p) == StrRank(p.group) * 100 + p.order * 10 + StrRank(p.name)

\* C10: the names a startMany worker has called _start_profile for so far are
\* selected profiles in strictly ascending (group, order, name) order, so the
\* sequence is the one ascending arrangement of its input.
InitiatedAscending ==
    /\ \A i \in 1..Len(initiated) : initiated[i] \in ProfNames(Selected(w_mode))
    /\ \A i, j \in 1..Len(initiated) :
          i < j => KeyNum(ProfOf(initiated[i])) < KeyNum(ProfOf(initiated[j]))

\* C10, the case: three profiles of two groups, two of them tied on group and
\* order, have all been initiated, in another order than the list's.
InitiatedReordered ==
    /\ Len(initiated) = 3
    /\ \E i \in 1..3 : initiated[i] # profiles[i].name
    /\ \E i, j \in 1..3 : profiles[i].group # profiles[j].group
    /\ \E i, j \in 1..3 :
          /\ i # j
          /\ profiles[i].group = profiles[j].group
          /\ profiles[i].order = profiles[j].order

\* the worker sleeps after launching p: "prof.get("group", "").strip() and
\* int(prof.get("postLaunchDelay", 0) or 0) > 0"
Delayed(p) == p.group # "" /\ p.postLaunchDelay > 0

\* C11: while shutdown is not signalled, the worker's wait for a name ends only
\* when the name has left _launching or max(10, waitTimeout + 10) seconds have
\* passed since the call; and the profile after a grouped profile A with
\* postLaunchDelay d > 0 is initiated only when that wait has ended and d
\* further seconds have passed.
NextStartsAfterDelay ==
    [][/\ (pc["w1"] = "w_wait" /\ pc'["w1"] # "w_wait" /\ ~stop_event)
            => (tname["w1"] \notin launching \/ clock >= timer["w1"])
       /\ (/\ pc["w1"] = "w_loop" /\ pc'["w1"] \notin {"w_loop", "w_free"}
           /\ idx["w1"] > 1 /\ ~stop_event
           /\ Delayed(w_profs[idx["w1"] - 1]))
            => /\ settledAt # 0
               /\ clock >= settledAt + w_profs[idx["w1"] - 1].postLaunchDelay]_vars

\* C11, the case: without shutdown, B has been initiated after a grouped A with
\* a postLaunchDelay, A being still in flight (its wait ran to the bound).
StartedAfterBoundAndDelay ==
    /\ Len(initiated) = 2
    /\ ~stop_event
    /\ Delayed(ProfOf(initiated[1]))
    /\ initiated[1] \in launching
    /\ pc["w1"] \in {"sp_launching", "w_wait"}

\* C12: the worker never sleeps the post-launch delay of the final profile of
\* its sequence.
NoDelayAfterLast ==
    pc["w1"] = "w_delay" => idx["w1"] < Len(w_profs)

\* the group the reconciler is deciding about
DecidedGroup == GroupSeq[recon.gi]

\* the reconciler leaves its comparison of desired and actual state
ReconDecides == pc["red"] = "x_decide" /\ pc'["red"] # "x_decide"

\* some profile of group g has a recorded handle whose process is alive
SomeAlive(g) ==
    \E i \in 1..Len(profiles) :
        /\ profiles[i].group = g
        /\ processes[profiles[i].name] # NoPid
        /\ processes[profiles[i].name] \in alive

\* C13: when the reconciler compares a group whose desired state (the value
\* is "1") equals its actual state (some profile of the group is alive), it
\* starts no worker and stops nothing: the handles, statuses, userStopped
\* flags, in-flight markers and restart times are unchanged, no process is
\* touched, and the reconciler goes on to the next group.
ReconNoOpWhenConverged ==
    [][ (ReconDecides /\ ((recon.value = "1") <=> SomeAlive(DecidedGroup)))
        => /\ UNCHANGED <<registry, osvars, last_restart, wvars, tname>>
           /\ pc'["w1"] = pc["w1"]
           /\ pc'["red"] = "x_group"
           /\ recon'.gi = recon.gi + 1 ]_vars

\* C13 witness: the reconciler has just found a running group whose value is
\* "1" and done nothing.
ReconSawConverged ==
    /\ pc["red"] = "x_group"
    /\ recon.last = "none"
    /\ recon.lastRunning
    /\ recon.gi > 1
    /\ SomeAlive(GroupSeq[recon.gi - 1])

\* the names of the profiles of group g
NamesOfGroup(g) == {profiles[i].name : i \in {j \in 1..Len(profiles) : profiles[j].group = g}}

\* names, a sequence, is the profiles of group g in ascending (order, name) order
IsGroupInOrder(names, g) ==
    /\ {names[i] : i \in 1..Len(names)} = NamesOfGroup(g)
    /\ \A i, j \in 1..Len(names) :
          i < j => \/ ProfOf(names[i]).order < ProfOf(names[j]).order
                   \/ /\ ProfOf(names[i]).order = ProfOf(names[j]).order
                      /\ StrRank(names[i]) < StrRank(names[j])

ReconLeavesGroup ==
    /\ pc["red"] \in {"x_group", "x_decide", "x_stop"}
    /\ recon'.gi # recon.gi

\* C15: a lookup that raises gives no value, so the group's desired state is
\* false: if a profile of the group is alive the loop of _stop_profile calls
\* over the group begins, otherwise nothing is started; and the reconciler then
\* goes on to the following group of the same cycle, whether or not the lookup
\* failed.
LookupErrorMeansOff ==
    [][ /\ (pc["red"] = "x_group" /\ pc'["red"] = "x_decide" /\ recon'.err)
           => recon'.value # "1" /\ recon'.gi = recon.gi
        /\ (ReconDecides /\ recon.err /\ SomeAlive(DecidedGroup))
           => /\ pc'["red"] = "x_stop"
              /\ {recon'.profs[i] : i \in 1..Len(recon'.profs)} = NamesOfGroup(DecidedGroup)
        /\ (ReconDecides /\ recon.err /\ ~SomeAlive(DecidedGroup))
           => pc'["w1"] = pc["w1"] /\ UNCHANGED registry
        /\ (ReconLeavesGroup /\ recon.gi \in 1..Len(GroupSeq))
           => recon'.gi = recon.gi + 1 /\ pc'["red"] = "x_group" ]_vars

\* C15 witness: the lookup of the first group failed, the group was running
\* and its profiles were stopped, and the reconciler is now deciding about the
\* second group in the same cycle.
ReconPastFailedLookup ==
    /\ recon.errStop
    /\ recon.gi = 2
    /\ pc["red"] = "x_decide"

\* C16: while the reconciler handles a group whose lookup failed, it is never
\* in the loop that stops the group's profiles, nor inside a _stop_profile
\* call.
LookupErrorChangesNothing ==
    recon.err => pc["red"] \notin {"x_stop", "st_term", "st_pop", "st_status"}

\* C17: no profile has the status "Running" and a recorded handle that the
\* engine's latest poll of it found dead.
RunningMeansAliveAtLastPoll ==
    \A n \in Names :
        (status_map[n] = "Running" /\ processes[n] # NoPid)
            => recon.sawDead[n] # processes[n]

\* C18: a name's handle leaves the registry only in a step that finds its
\* process dead.
HandleDroppedOnlyWhenDead ==
    [][ \A n \in Names :
          (processes[n] # NoPid /\ processes'[n] = NoPid) => processes[n] \notin alive ]_vars

\* C19: no two profiles of the store have the same name.
UniqueNames ==
    \A i, j \in 1..Len(profiles) : i # j => profiles[i].name # profiles[j].name

\* the auto-start worker has gone through its whole list
AutoStartOver ==
    /\ w_mode = "auto"
    /\ pc["w1"] = "w_loop"
    /\ idx["w1"] > Len(w_profs)

\* C20: when the auto-start worker of the startup has gone through its list, it
\* has called _start_profile for every profile of a group whose mode is "on"
\* and for no profile of a group whose mode is "off".
AutoStartFollowsGroupMode ==
    AutoStartOver =>
        \A i \in 1..Len(profiles) :
            /\ (profiles[i].group \in Groups /\ group_modes[profiles[i].group] = "on")
                  => \E k \in 1..Len(initiated) : initiated[k] = profiles[i].name
            /\ (profiles[i].group \in Groups /\ group_modes[profiles[i].group] = "off")
                  => \A k \in 1..Len(initiated) : initiated[k] # profiles[i].name

\* self.data is what load_profiles and __init__ made of the file
LoadedUnchanged ==
    /\ profiles = load_profiles(conf).profiles
    /\ data = WithDefaults(load_profiles(conf).top)

\* every entry of document d, and every key of each of its profiles, is in
\* document e with the same value
Preserved(d, e) ==
    /\ d.top \subseteq e.top
    /\ Len(e.profiles) = Len(d.profiles)
    /\ \A i \in 1..Len(d.profiles) :
          \A k \in d.profiles[i].has :
              /\ k \in e.profiles[i].has
              /\ e.profiles[i].v[k] = d.profiles[i].v[k]

\* C21: a save of the data as loaded writes a file that has every entry of the
\* loaded file, and every key of each of its profiles, with the same value.
SaveAfterLoadPreservesFields ==
    [][ (LoadedUnchanged /\ conf' # conf) => Preserved(conf, conf') ]_vars

\* the recorded process of autoRestart profile n has exited, the user has not
\* stopped n, no shutdown, no start of n is under way, and the clock leaves
\* room for a cooldown and a sleep of the monitor
ExitedUnattended(n) ==
    /\ n \in ProfNames(profiles)
    /\ ProfOf(n).autoRestart
    /\ processes[n] # NoPid
    /\ processes[n] \notin alive
    /\ ~user_stop_flags[n]
    /\ ~stop_event
    /\ n \notin launching
    /\ pc["mon"] \notin {"m_call", "sp_launching", "sp_add"}
    /\ clock + Cooldown + MonitorSleepSeconds <= MaxLongTime

\* the monitor has recorded the restart time of n and is calling _start_profile
MonitorRestarts(n) ==
    /\ pc["mon"] = "m_call"
    /\ tname["mon"] = n
    /\ last_restart[n] = m_now

\* C22: whenever the process of an autoRestart profile has exited, with the
\* profile not stopped by the user and no shutdown, the crash monitor
\* eventually records a restart time and calls _start_profile for it; this
\* holds again after every restart that failed or whose process exited.
CrashedIsRestarted ==
    \A n \in Names : ExitedUnattended(n) ~> MonitorRestarts(n)

\* C22 witness: the monitor restarts a name it has restarted before, its
\* recorded process being dead.
MonitorRestartsAgain ==
    \E n \in Names :
        /\ MonitorRestarts(n)
        /\ monStarted[n] # 0
        /\ processes[n] # NoPid
        /\ processes[n] \notin alive

\* a _stop_profile call for n is in progress
Stopping(n) == \E t \in Threads : pc[t] \in {"st_term", "st_pop", "st_status"} /\ tname[t] = n

\* C23: where no start is requested after a stop, a name whose stop has
\* returned (its user-stop flag is still set) has no live process and not the
\* status "Running", also when the stop came while a start of the name was in
\* flight.
StopInFlightPrevails ==
    \A n \in Names :
        (user_stop_flags[n] /\ ~Stopping(n))
            => ~IsLive(processes[n]) /\ status_map[n] # "Running"

\* C24: whenever the crash monitor calls _start_profile for a name, the profile
\* has autoRestart, the name is not in _launching, and no live process is
\* recorded for it.
MonitorStartsOnlyExited ==
    [][ (pc["mon"] = "m_call" /\ pc'["mon"] # "m_call")
          => /\ ProfOf(tname["mon"]).autoRestart
             /\ tname["mon"] \notin launching
             /\ ~IsLive(processes[tname["mon"]]) ]_vars

\* C25: when a _stop_profile call for a name returns, the user-stop flag of the
\* name is set, no handle is recorded for it and its status is "Stopped".
StopLeavesStopped ==
    [][ \A t \in Threads :
          (pc[t] = "st_status" /\ pc'[t] # "st_status")
              => /\ user_stop_flags'[tname[t]]
                 /\ processes'[tname[t]] = NoPid
                 /\ status_map'[tname[t]] = "Stopped" ]_vars

\* C26: when the spawn of a runner fails, the runner ends leaving the status of
\* its name "Stopped" and the name out of _launching; no handle is recorded or
\* removed, no process is created, and no other thread is disturbed (nothing
\* is raised to the caller, which returned when it created the runner).
SpawnFailureEndsStopped ==
    [][ \A k \in RunnerKeys :
          (runner[k].pc = "r_spawn" /\ runner'[k].pc = "free")
              => /\ status_map'[k[1]] = "Stopped"
                 /\ k[1] \notin launching'
                 /\ UNCHANGED <<processes, osvars, locals>> ]_vars

\* C26 witness: a restart of a crashed profile failed to spawn; the profile is
\* "Stopped", not in flight, and the handle of the dead process is still the
\* recorded one.
RestartFailedToSpawn ==
    \E n \in Names :
        /\ monStarted[n] # 0
        /\ status_map[n] = "Stopped"
        /\ n \notin launching
        /\ processes[n] # NoPid
        /\ processes[n] \notin alive
        /\ \A i \in Slots : runner[<<n, i>>].pc = "free"

\* the names of a list of profiles, in its order
NamesInOrder(ps) == [i \in 1..Len(ps) |-> ps[i].name]

\* C27: when a startMany worker ends, it has called _start_profile once for
\* each profile of its sorted selection, in that order, whatever became of the
\* earlier starts; and the selection has every selected profile once.
WorkerInitiatesEveryProfile ==
    [][ (pc["w1"] = "w_loop" /\ pc'["w1"] = "w_free")
            => /\ initiated = NamesInOrder(w_profs)
               /\ Len(w_profs) = Len(Selected(w_mode))
               /\ ProfNames(w_profs) = ProfNames(Selected(w_mode)) ]_vars

\* C27 witness: the worker is through its list of two; the start of the first
\* profile has ended in failure (no runner, not in flight, "Stopped", no
\* handle) and the second profile was initiated after it.
InitiatedAfterFailure ==
    /\ pc["w1"] = "w_loop"
    /\ Len(w_profs) = 2
    /\ idx["w1"] > Len(w_profs)
    /\ initiated = NamesInOrder(w_profs)
    /\ LET n == w_profs[1].name
       IN /\ status_map[n] = "Stopped"
          /\ processes[n] = NoPid
          /\ n \notin launching
          /\ \A i \in Slots : runner[<<n, i>>].pc = "free"

\* the worker thread of a _start_groups([g]) call is executing
SequenceExecuting(g) ==
    /\ pc["w1"] # "w_free"
    /\ w_mode = "groups"
    /\ w_gset = {g}

\* the reconciler is at line 933 and the condition under which lines 934-936 call
\* _start_groups([g]) is true: "should_run and not is_running"
ReconLaunches(g) ==
    /\ pc["red"] = "x_decide"
    /\ GroupSeq[recon.gi] = g
    /\ ShouldRun(recon.value)
    /\ ~GroupRunning(g)

\* C28: the reconciler does not come to launch a start sequence for a group
\* while the worker of a start sequence it launched for that group in an
\* earlier cycle is still executing.
NoLaunchDuringSequence ==
    \A g \in Groups : ~(ReconLaunches(g) /\ SequenceExecuting(g))

\* no process spawned for a profile of group g is alive
NoLiveProcess(g) == \A p \in alive : ProfOf(owner[p]).group # g

NoInitiationAfterShutdown ==
    [][ stop_event => Len(initiated') <= Len(initiated) ]_vars

\* the start of name n that runner k carries has settled
Settled(k) ==
    /\ runner[k].pc = "free"
    /\ k[1] \notin launching
    /\ status_map[k[1]] \in {"Running", "Stopped"}

\* C31: every runner thread an accepted _start_profile created comes to its
\* end, with its name out of _launching and the status of the name "Running"
\* or "Stopped".
AcceptedStartSettles ==
    \A k \in RunnerKeys : (runner[k].pc # "free") ~> Settled(k)

\* C31 witness: a gated start has ended after probes of an unreachable target:
\* "Offline", "Stopped", not in flight.
SettledOffline ==
    \E k \in RunnerKeys :
        /\ Settled(k)
        /\ conn_status[k[1]] = "Offline"
        /\ status_map[k[1]] = "Stopped"
        /\ ProfOf(k[1]).waitTimeout > 0

\* C32: a cycle of the crash monitor ends (its sleep begins) only when the for
\* loop has reached the last profile of the list, also when the check of a
\* profile raised.
MonitorCycleReachesEveryProfile ==
    [][ (pc["mon"] # "m_sleep" /\ pc'["mon"] = "m_sleep")
            => idx["mon"] >= Len(profiles) ]_vars

\* C33: a probe of the waiter that was under way when its cancel event was set
\* does not end the wait with True (the worker does not go on to launch).
CancelledWaitNeverSucceeds ==
    [][ \A i \in GuiWorkers :
          (gui.w[i].pc = "a_probe" /\ gui.w[i].ev \in gui.set_events)
              => gui'.w[i].pc # "a_launch" ]_vars

\* C34: launcher.wait_for_connectivity called with a total timeout of 0 makes
\* no probe.
ZeroTimeoutNeverProbes ==
    \A i \in GuiWorkers :
        PING_TOTAL_TIMEOUT = 0 => gui.w[i].pc # "a_probe" /\ ~gui.w[i].probed

\* C37: whatever the number of save_config calls, the auto-start workers
\* together launch the control application and the browser at most once.
AtMostOneAutoLaunch == gui.launches <= 1

\* C35: for a total timeout above 0, a probe of the waiter of the simple engine
\* ends the wait with False only when the deadline has passed (it is the probe
\* after the loop), and before the deadline a probe either ends the wait with
\* True or is followed by the sleep.
FalseOnlyAfterDeadline ==
    [][ \A k \in RunnerKeys :
          runner[k].pc = "r_probe" =>
              /\ (runner'[k].pc = "r_waitdone" /\ ~runner'[k].ok)
                    => clock >= runner[k].deadline /\ runner'[k].probed
              /\ runner'[k].pc = "r_sleep" => clock < runner[k].deadline
              /\ runner'[k].pc \in {"r_probe", "r_sleep", "r_waitdone", "free"} ]_vars

\* C35 witness: a wait with timeout 2 has ended with False on a probe made
\* when the deadline had passed.
FinalProbeFailed ==
    \E k \in RunnerKeys :
        /\ runner[k].pc = "r_waitdone"
        /\ ~runner[k].ok
        /\ runner[k].probed
        /\ ProfOf(k[1]).waitTimeout > 0
        /\ clock >= runner[k].deadline

\* a bare host or IP: not empty, no colon
BareHost(target) == target # <<>> /\ ~Contains(target, ":")

\* C36: can_reach pings a bare host and returns what the ping finds, and it
\* returns False without a probe only for a target that is neither an HTTP(S)
\* URL, nor host:port, nor a bare host.
BareHostIsPinged ==
    reach_call.done =>
        /\ BareHost(reach_call.target)
              => reach_call.out.probe = "ping" /\ reach_call.out.result = reach_call.net.ping
        /\ reach_call.out.probe = "none"
              => /\ ~is_http_target(reach_call.target)
                 /\ ~is_tcp_target(reach_call.target)
                 /\ ~BareHost(reach_call.target)

\* C38: once _start_redis_monitor has started a new loop thread, the loop
\* thread of an earlier start that had not left its loop begins no further
\* cycle.
OldLoopRunsNoCycle ==
    [][ (redis_mon.stale /\ pc["red"] = "x_top") => pc'["red"] # "x_group" ]_vars

\* C39: the loop thread of the reconciler leaves its loop only when shutdown
\* has been signalled or _start_redis_monitor has been called since the thread
\* was started; lookups that raise do not end it.
LoopEndsOnlyOnShutdownOrRestart ==
    pc["red"] = "x_exit" => stop_event \/ redis_mon.restarted

\* C39 witness: with the connection lost, the loop has ended a cycle and is in
\* a later one, past another lookup that raised; no shutdown, no restart.
LoopSurvivesLostStore ==
    /\ pc["red"] = "x_decide"
    /\ recon.err
    /\ redis_mon.cycled
    /\ ~redis_mon.restarted
    /\ ~stop_event

====
